---- MODULE Spec2Model ----
(***************************************************************************)
(* Model of scripts/twinset_site_indexer.py: the resumable crawl-and-match *)
(* pipeline over a SQLite store (tables sitemaps, url_queue, products,     *)
(* sku_index), its HTTP client, its URL normaliser and classifier and its  *)
(* block-page detector.                                                    *)
(*                                                                         *)
(* Representation choices                                                  *)
(*  - A URL is the record [host, path, query, fragment]; path is the       *)
(*    sequence of the segments that follow the host, so the text of the    *)
(*    URL is "https://" host ("/" segment)*, and a trailing "/" is a last  *)
(*    segment "".  The scheme is always https.                             *)
(*  - A nullable column holds NULL (the empty set) or Some(v) = {v}.       *)
(*  - HTTP status codes are the strings "200", "404", ...                  *)
(*  - db is the committed content of the SQLite file (what a restarted     *)
(*    process or a concurrent reader sees); conn is the content as seen by *)
(*    the crawler's connection, i.e. db plus its open transaction.         *)
(***************************************************************************)
EXTENDS Integers, Sequences, FiniteSets, TLC

VARIABLES
    db,         \* committed store
    conn,       \* store as seen through the crawler's connection
    clock,      \* now_iso(), in whole seconds
    pc,         \* position of the crawler process ("idle": no process)
    args,       \* argparse.Namespace of the running crawl
    site_idx,   \* index into selected_sites (run_crawl's for loop)
    processed,  \* crawl_sitemaps / crawl_urls local counter
    row,        \* crawl_urls: the dequeued row (url, url_type, depth)
    resp,       \* crawl_urls: outcome of client.get_text(url)
    blocked,    \* crawl_urls: detect_block_page(page_html)
    reset,      \* run_crawl: value returned by db.reset_errors
    faults,     \* number of times a server has misbehaved or a run was
                \* interrupted so far
    exit_code   \* exit status of the last process (NULL: none has exited)

vars == <<db, conn, clock, pc, args, site_idx, processed, row, resp, blocked, reset, faults, exit_code>>

-----------------------------------------------------------------------------
(* Bounds *)

\* Fetches (one call of get_text or get_bytes) during which a server answers
\* with anything but its regular page.  Every further processing attempt of
\* a URL needs one, so it also bounds the attempts counters.
MaxFaults == 1

\* Path segments of the URLs strip_query_and_fragment is applied to
MaxSegments == 3

\* Articles in the list handed to match_articles
MaxArticles == 3

-----------------------------------------------------------------------------
(* Nullable values *)

NULL == {}
Some(v) == {v}
COALESCE(a, b) == IF a # NULL THEN a ELSE b

-----------------------------------------------------------------------------
(* URLs *)

Url(host, path) == [host |-> host, path |-> path, query |-> "", fragment |-> ""]
UrlQ(host, path, query) == [host |-> host, path |-> path, query |-> query, fragment |-> ""]

\* The literal 'seed' stored in url_queue.discovered_from, which is a TEXT
\* column holding either that literal or the text of a URL.
SeedMark == Url("seed", <<>>)

\* Lexical classes of the strings that occur in the modelled sites.
DigitSegments == {"101", "202", "303"}
XmlSuffixed == {"sitemap.xml", "sitemap-a.xml", "sitemap-b.xml", "sitemap_index.xml"}
HtmlSuffixed == {"dress-241TP2140.html", "sale.html"}
TwinsetComHosts == {"www.twinset.com"}
ComLocales == {"row", "it"}
ComCategoryHeads == {"women", "sale.html"}

EndsWithSlash(u) == Len(u.path) > 0 /\ u.path[Len(u.path)] = ""
\* str.count("/") of the text of a URL without query and fragment
SlashCount(u) == 2 + Len(u.path)

strip_query_and_fragment(u) ==
    LET clean == [u EXCEPT !.query = "", !.fragment = ""]
    IN  IF EndsWithSlash(clean) /\ u.host \in TwinsetComHosts /\ SlashCount(clean) > 3
        THEN [clean EXCEPT !.path = SubSeq(clean.path, 1, Len(clean.path) - 1)]
        ELSE clean

-----------------------------------------------------------------------------
(* Site configuration: SITE_CONFIGS *)

RU == "twinset.ru"
COM == "twinset.com"
Sites == {RU, COM}

RuRobots == Url("twinset.ru", <<"robots.txt">>)
RuIndex == Url("twinset.ru", <<"sitemap.xml">>)
RuSeed == Url("twinset.ru", <<"catalog", "">>)
ComRobots == Url("www.twinset.com", <<"robots.txt">>)
ComIndex == Url("www.twinset.com", <<"sitemap_index.xml">>)
ComSeed == Url("www.twinset.com", <<"row", "">>)

base_url(site) == IF site = RU THEN "twinset.ru" ELSE "www.twinset.com"
sitemap_candidates(site) == IF site = RU THEN <<RuIndex, RuRobots>> ELSE <<ComIndex, ComRobots>>
seed_category_urls(site) == IF site = RU THEN <<RuSeed>> ELSE <<ComSeed>>

\* path without one optional trailing "/" (the regex suffix /?$)
DropSlash(path) ==
    IF Len(path) > 0 /\ path[Len(path)] = "" THEN SubSeq(path, 1, Len(path) - 1) ELSE path

\* ^https://twinset\.ru/catalog/\d+/?$
ru_stale_re(u) ==
    /\ u.host = "twinset.ru" /\ u.query = "" /\ u.fragment = ""
    /\ \E p \in {u.path, DropSlash(u.path)} :
          Len(p) = 2 /\ p[1] = "catalog" /\ p[2] \in DigitSegments

\* ^https://twinset\.ru/catalog/.+/\d+/?$
ru_product_url_re(u) ==
    /\ u.host = "twinset.ru" /\ u.query = "" /\ u.fragment = ""
    /\ \E p \in {u.path, DropSlash(u.path)} :
          /\ Len(p) >= 3 /\ p[1] = "catalog" /\ p[Len(p)] \in DigitSegments
          /\ (Len(p) > 3 \/ p[2] # "")

\* ^https://twinset\.ru/catalog(?:/.*)?/?$
ru_category_url_re(u) ==
    /\ u.host = "twinset.ru" /\ u.query = "" /\ u.fragment = ""
    /\ Len(u.path) >= 1 /\ u.path[1] = "catalog"

\* ^https://www\.twinset\.com/(?:row|[a-z]{2}(?:-[a-z]{2})?)/.+\.html$
com_product_url_re(u) ==
    /\ u.host = "www.twinset.com" /\ u.query = "" /\ u.fragment = ""
    /\ Len(u.path) >= 2 /\ u.path[1] \in ComLocales
    /\ u.path[Len(u.path)] \in HtmlSuffixed

\* ^https://www\.twinset\.com/(?:row|[a-z]{2}(?:-[a-z]{2})?)/(?:|women.*|man.*|child.*|sale.*|new.*|collection.*)$
com_category_url_re(u) ==
    /\ u.host = "www.twinset.com" /\ u.query = "" /\ u.fragment = ""
    /\ Len(u.path) >= 2 /\ u.path[1] \in ComLocales
    /\ \/ Len(u.path) = 2 /\ u.path[2] = ""
       \/ u.path[2] \in ComCategoryHeads

product_url_re(site, u) == IF site = RU THEN ru_product_url_re(u) ELSE com_product_url_re(u)
category_url_re(site, u) == IF site = RU THEN ru_category_url_re(u) ELSE com_category_url_re(u)

\* -([0-9]{3}[A-Z]{2,5}[0-9A-Z]{2,})(?:_[0-9A-Z]+)?\.html$ on the text of the
\* URL, upper-cased: the SKU embedded in the last segment, if any.
extract_twinset_com_sku_from_url(u) ==
    IF Len(u.path) > 0 /\ u.query = "" /\ u.fragment = ""
       /\ u.path[Len(u.path)] = "dress-241TP2140.html"
    THEN Some("241TP2140")
    ELSE NULL

classify_url(site, url) ==
    LET clean == strip_query_and_fragment(url)
    IN  IF site = RU /\ ru_stale_re(clean) THEN "other"
        ELSE IF product_url_re(site, clean)
             THEN IF site = COM
                  THEN IF extract_twinset_com_sku_from_url(clean) # NULL
                       THEN "product" ELSE "category"
                  ELSE "product"
        ELSE IF category_url_re(site, clean) THEN "category"
        ELSE "other"

\* link.startswith(site_cfg.base_url), with base_url "https://" host
StartsWithBase(site, u) == u.host = base_url(site) \/ (site = RU /\ u.host = "twinset.ru.example.org")

EndsWithXml(u) == Len(u.path) > 0 /\ u.path[Len(u.path)] \in XmlSuffixed

-----------------------------------------------------------------------------
(* The two web sites, as the crawler can observe them *)

RuLeafA == Url("twinset.ru", <<"sitemap-a.xml">>)
RuLeafB == Url("twinset.ru", <<"sitemap-b.xml">>)
RuP1 == Url("twinset.ru", <<"catalog", "dresses", "101">>)
RuP2 == Url("twinset.ru", <<"catalog", "coats", "202">>)
RuStale == Url("twinset.ru", <<"catalog", "303">>)
ComP == Url("www.twinset.com", <<"row", "dress-241TP2140.html">>)
Elsewhere == Url("twinset.ru.example.org", <<"catalog", "">>)
\* the same category, linked with two trailing slashes
ComWomenSlashes == Url("www.twinset.com", <<"row", "women", "", "">>)

\* Sitemap: lines of robots.txt
RobotsSitemaps(site) == IF site = RU THEN <<RuIndex>> ELSE <<ComIndex>>

\* <loc> values of a sitemap document
SitemapLocs(u) ==
    CASE u = RuIndex -> <<RuLeafA, RuLeafB>>
      [] u = RuLeafA -> <<RuP1, RuStale, RuLeafA>>
      [] u = RuLeafB -> <<UrlQ("twinset.ru", <<"catalog", "coats", "202">>, "utm=1"), RuIndex>>
      [] u = ComIndex -> <<ComSeed>>
      [] OTHER -> <<>>

\* href values of a page, made absolute (urljoin)
PageHrefs(u) ==
    CASE u = RuSeed -> <<UrlQ("twinset.ru", <<"catalog", "dresses", "101">>, "color=2"), Elsewhere>>
      [] u = RuP1 -> <<RuSeed, RuP2>>
      [] u = strip_query_and_fragment(ComSeed) -> <<ComSeed, ComWomenSlashes>>
      [] u = strip_query_and_fragment(ComWomenSlashes) -> <<ComSeed>>
      [] OTHER -> <<>>

\* The SKU text the regular product page of a URL carries, and the ones an
\* irregular page may carry instead (none at all, or another one)
PageSku(u) == IF u \in {RuP1, RuP2} THEN Some("SKU1") ELSE NULL
OtherSkus(u) == IF u = RuP1 THEN {NULL} ELSE {}

Markers == <<"attention required!", "cf-challenge", "verify you are a human",
             "captcha", "access denied", "temporarily unavailable">>
MarkerSet == {Markers[i] : i \in 1..Len(Markers)}
Casings == {"lower", "UPPER"}

\* The text of a page is modelled by what the code reads of it: the marker
\* phrases it contains, each in the letter case it is written in; the SKU the
\* site-specific parser finds; the title; the hrefs; whether an href is
\* malformed so that urljoin/urlparse raise ValueError.
PageTitle(u) == IF u \in {RuP1, ComP} THEN Some("Dress") ELSE NULL

Page(found, sku, title, hrefs, bad) ==
    [found |-> found, sku |-> sku, title |-> title, hrefs |-> hrefs, bad_href |-> bad]

MarkerVariants ==
    { {<<"captcha", "UPPER">>, <<"access denied", "lower">>} }

RegularPage(u) == Page({}, PageSku(u), PageTitle(u), PageHrefs(u), FALSE)

PagesOf(u) ==
    {RegularPage(u)}
      \cup { Page(m, PageSku(u), PageTitle(u), PageHrefs(u), FALSE) : m \in MarkerVariants }
      \cup { Page({}, s, PageTitle(u), PageHrefs(u), FALSE) : s \in OtherSkus(u) }
      \cup { Page({}, s, PageTitle(u), PageHrefs(u), TRUE) : s \in {PageSku(u)} \cup OtherSkus(u) }

-----------------------------------------------------------------------------
(* detect_block_page *)

\* str.lower(): every phrase of the text in lower case
lower(found) == { <<o[1], "lower">> : o \in found }
\* marker in lowered
Contains(text, marker) == <<marker, "lower">> \in text

\* Mutant: the markers are looked up in page_html, not in page_html.lower()
detect_block_page_cased(found) ==
    LET score == Cardinality({ i \in 1..Len(Markers) : Contains(found, Markers[i]) })
    IN  score >= 2 \/ Contains(found, "cf-challenge")

detect_block_page(found) ==
    LET lowered == lower(found)
        score == Cardinality({ i \in 1..Len(Markers) : Contains(lowered, Markers[i]) })
    IN  score >= 2 \/ Contains(lowered, "cf-challenge")

-----------------------------------------------------------------------------
(* SimpleHttpClient *)

BackoffTenths == 12     \* time.sleep(1.2 * attempt), in tenths of a second

NoPage == Page({}, NULL, NULL, <<>>, FALSE)

\* What the server does with one request: answer 200 with a page, answer
\* with an HTTP error status (HTTPError), or fail below HTTP (URLError,
\* TimeoutError, ConnectionError).
AnswerOk(page) == [kind |-> "ok", code |-> "200", page |-> page]
AnswerHttp(code) == [kind |-> "http", code |-> code, page |-> NoPage]
AnswerNet == [kind |-> "net", code |-> "", page |-> NoPage]

\* Outcome of get_bytes: kind "ok" (returned), "http" (HTTPError raised),
\* "fail" (RuntimeError raised); seen lists what each request sent met ("200",
\* an HTTP error status, or "net"), so Len(seen) requests were sent; sleeps
\* lists the backoff sleeps made.
Outcome(kind, code, page, seen, sleeps) ==
    [kind |-> kind, code |-> code, page |-> page, seen |-> seen, sleeps |-> sleeps]

RECURSIVE get_bytes_loop(_, _, _, _, _)
get_bytes_loop(attempt, retries, answers, seen, sleeps) ==
    IF attempt > retries
    THEN Outcome("fail", NULL, NoPage, seen, sleeps)
    ELSE LET a == answers[attempt]
             seen1 == Append(seen, IF a.kind = "net" THEN "net" ELSE a.code)
         IN  CASE a.kind = "ok" ->
                    Outcome("ok", Some(a.code), a.page, seen1, sleeps)
               [] a.kind = "http" ->
                    IF attempt >= retries
                    THEN Outcome("http", Some(a.code), NoPage, seen1, sleeps)
                    ELSE get_bytes_loop(attempt + 1, retries, answers, seen1,
                                        Append(sleeps, BackoffTenths * attempt))
               [] OTHER ->
                    IF attempt >= retries
                    THEN Outcome("fail", NULL, NoPage, seen1, sleeps)
                    ELSE get_bytes_loop(attempt + 1, retries, answers, seen1,
                                        Append(sleeps, BackoffTenths * attempt))

get_bytes(retries, answers) == get_bytes_loop(1, retries, answers, <<>>, <<>>)

\* get_text decodes what get_bytes returns (errors="ignore"); the decoding
\* is not modelled.
get_text(retries, answers) == get_bytes(retries, answers)

HttpErrorCodes == {"404", "410", "500"}

\* The regular answer for a URL: 200 with its regular page
Clean(u, a) == a = AnswerOk(RegularPage(u))

\* The answers a server can give to the successive requests for one URL
AnswersOf(u, retries) ==
    [1..retries -> { AnswerOk(p) : p \in PagesOf(u) }
                   \cup { AnswerHttp(c) : c \in HttpErrorCodes } \cup {AnswerNet}]

-----------------------------------------------------------------------------
(* IndexDb: the four tables.  A table is a function from its primary key  *)
(* to the other columns of the row.                                        *)

EmptyTable == [k \in {} |-> {}]
EmptyStore ==
    [sitemaps |-> EmptyTable, url_queue |-> EmptyTable,
     products |-> EmptyTable, sku_index |-> EmptyTable]

\* Mutant: INSERT OR REPLACE instead of ON CONFLICT DO NOTHING
enqueue_sitemap_replace(t, site, url, discovered_from, at) ==
    [k \in DOMAIN t \cup {<<site, url>>} |->
        IF k = <<site, url>>
        THEN [status |-> "pending", discovered_from |-> discovered_from,
              item_count |-> NULL, attempts |-> 0, last_error |-> NULL,
              updated_at |-> at]
        ELSE t[k]]

enqueue_sitemap(t, site, url, discovered_from, now) ==
    IF <<site, url>> \in DOMAIN t
    THEN t
    ELSE t @@ (<<site, url>> :>
                [status |-> "pending", discovered_from |-> discovered_from,
                 item_count |-> NULL, attempts |-> 0, last_error |-> NULL,
                 updated_at |-> now])

set_sitemap_status(t, site, url, status, item_count, error, now) ==
    [k \in DOMAIN t |->
        IF k = <<site, url>>
        THEN [t[k] EXCEPT !.status = status,
                          !.item_count = COALESCE(item_count, @),
                          !.attempts = @ + 1,
                          !.last_error = error,
                          !.updated_at = now]
        ELSE t[k]]

\* The rows ORDER BY attempts ASC, updated_at ASC LIMIT 1 can return: SQL
\* leaves the order of rows that tie unspecified.
next_pending_sitemap(t, site) ==
    LET cand == { k \in DOMAIN t : k[1] = site /\ t[k].status = "pending" }
        Before(a, b) == \/ t[a].attempts < t[b].attempts
                        \/ t[a].attempts = t[b].attempts /\ t[a].updated_at < t[b].updated_at
    IN  { k[2] : k \in { a \in cand : \A b \in cand : ~Before(b, a) } }

\* Mutant: INSERT OR REPLACE instead of ON CONFLICT DO NOTHING
enqueue_url_replace(t, site, url, url_type, depth, discovered_from, at) ==
    [k \in DOMAIN t \cup {<<site, url>>} |->
        IF k = <<site, url>>
        THEN [url_type |-> url_type, status |-> "pending", depth |-> depth,
              discovered_from |-> discovered_from, attempts |-> 0,
              last_http_status |-> NULL, blocked |-> 0, last_error |-> NULL,
              updated_at |-> at]
        ELSE t[k]]

enqueue_url(t, site, url, url_type, depth, discovered_from, now) ==
    IF <<site, url>> \in DOMAIN t
    THEN t
    ELSE t @@ (<<site, url>> :>
                [url_type |-> url_type, status |-> "pending", depth |-> depth,
                 discovered_from |-> discovered_from, attempts |-> 0,
                 last_http_status |-> NULL, blocked |-> 0, last_error |-> NULL,
                 updated_at |-> now])

\* Mutant: WHERE status IN ('pending', 'error')
next_pending_url_error(t, site, allowed_types, max_depth) ==
    { k \in DOMAIN t : /\ k[1] = site
                        /\ t[k].status \in {"pending", "error"}
                        /\ t[k].url_type \in allowed_types
                        /\ t[k].depth <= max_depth }

\* Mutant: ORDER BY depth ASC, attempts ASC (updated_at left out)
next_pending_url_no_time(t, site, allowed_types, max_depth) ==
    LET cand == { k \in DOMAIN t : /\ k[1] = site
                                   /\ t[k].status = "pending"
                                   /\ t[k].url_type \in allowed_types
                                   /\ t[k].depth <= max_depth }
        Before(a, b) ==
            \/ t[a].depth < t[b].depth
            \/ t[a].depth = t[b].depth /\ t[a].attempts < t[b].attempts
    IN  { a \in cand : \A b \in cand : ~Before(b, a) }

next_pending_url(t, site, allowed_types, max_depth) ==
    LET cand == { k \in DOMAIN t : /\ k[1] = site
                                   /\ t[k].status = "pending"
                                   /\ t[k].url_type \in allowed_types
                                   /\ t[k].depth <= max_depth }
        Before(a, b) ==
            \/ t[a].depth < t[b].depth
            \/ t[a].depth = t[b].depth /\ t[a].attempts < t[b].attempts
            \/ t[a].depth = t[b].depth /\ t[a].attempts = t[b].attempts
                                       /\ t[a].updated_at < t[b].updated_at
    IN  { a \in cand : \A b \in cand : ~Before(b, a) }

\* Mutant: last_http_status = ? instead of COALESCE(?, last_http_status)
set_url_status_overwrite(t, site, url, status, http_status, is_blocked, error, at) ==
    [k \in DOMAIN t |->
        IF k = <<site, url>>
        THEN [t[k] EXCEPT !.status = status,
                          !.attempts = @ + 1,
                          !.last_http_status = http_status,
                          !.blocked = IF is_blocked THEN 1 ELSE 0,
                          !.last_error = error,
                          !.updated_at = at]
        ELSE t[k]]

set_url_status(t, site, url, status, http_status, is_blocked, error, now) ==
    [k \in DOMAIN t |->
        IF k = <<site, url>>
        THEN [t[k] EXCEPT !.status = status,
                          !.attempts = @ + 1,
                          !.last_http_status = COALESCE(http_status, @),
                          !.blocked = IF is_blocked THEN 1 ELSE 0,
                          !.last_error = error,
                          !.updated_at = now]
        ELSE t[k]]

\* Python truth value of an Optional[str]: None and "" are false
Truthy(v) == v # NULL /\ v # Some("")

\* INSERT ... ON CONFLICT DO UPDATE of one row
Upsert(t, key, value) == [k \in DOMAIN t \cup {key} |-> IF k = key THEN value ELSE t[k]]

\* Mutant: the sku_index row is written whether or not a SKU was found
upsert_product_unguarded(store, site, url, sku, title, at) ==
    LET p == Upsert(store.products, <<site, url>>,
                    [sku |-> sku, title |-> title, updated_at |-> at])
        x == Upsert(store.sku_index, <<site, sku, url>>,
                    [title |-> title, updated_at |-> at])
    IN  [store EXCEPT !.products = p, !.sku_index = x]

\* payload_json and category_path travel with title and are not modelled.
upsert_product(store, site, url, sku, title, now) ==
    LET p == Upsert(store.products, <<site, url>>,
                    [sku |-> sku, title |-> title, updated_at |-> now])
        x == IF Truthy(sku)
             THEN Upsert(store.sku_index, <<site, sku, url>>,
                         [title |-> title, updated_at |-> now])
             ELSE store.sku_index
    IN  [store EXCEPT !.products = p, !.sku_index = x]

\* Mutant: WHERE status IN ('error', 'blocked', 'gone')
reset_errors_gone(t, site, at) ==
    LET hit == { k \in DOMAIN t : k[1] = site /\ t[k].status \in {"error", "blocked", "gone"} }
    IN  [queue |-> [k \in DOMAIN t |->
                      IF k \in hit
                      THEN [t[k] EXCEPT !.status = "pending", !.last_error = NULL,
                                        !.blocked = 0, !.updated_at = at]
                      ELSE t[k]],
         rowcount |-> Cardinality(hit)]

\* Mutant: the WHERE clause lacks site = ?
reset_errors_all_sites(t, site, at) ==
    LET hit == { k \in DOMAIN t : t[k].status \in {"error", "blocked"} }
    IN  [queue |-> [k \in DOMAIN t |->
                      IF k \in hit
                      THEN [t[k] EXCEPT !.status = "pending", !.last_error = NULL,
                                        !.blocked = 0, !.updated_at = at]
                      ELSE t[k]],
         rowcount |-> Cardinality(hit)]

\* Mutant: SET status = 'pending', last_error = NULL, updated_at = ?
reset_errors_keeps_blocked(t, site, at) ==
    LET hit == { k \in DOMAIN t : k[1] = site /\ t[k].status \in {"error", "blocked"} }
    IN  [queue |-> [k \in DOMAIN t |->
                      IF k \in hit
                      THEN [t[k] EXCEPT !.status = "pending", !.last_error = NULL,
                                        !.updated_at = at]
                      ELSE t[k]],
         rowcount |-> Cardinality(hit)]

\* Mutant: the reset also clears the attempts counter
reset_errors_zero_attempts(t, site, at) ==
    LET hit == { k \in DOMAIN t : k[1] = site /\ t[k].status \in {"error", "blocked"} }
    IN  [queue |-> [k \in DOMAIN t |->
                      IF k \in hit
                      THEN [t[k] EXCEPT !.status = "pending", !.last_error = NULL,
                                        !.blocked = 0, !.attempts = 0, !.updated_at = at]
                      ELSE t[k]],
         rowcount |-> Cardinality(hit)]

reset_errors(t, site, now) ==
    LET hit == { k \in DOMAIN t : k[1] = site /\ t[k].status \in {"error", "blocked"} }
    IN  [queue |-> [k \in DOMAIN t |->
                      IF k \in hit
                      THEN [t[k] EXCEPT !.status = "pending", !.last_error = NULL,
                                        !.blocked = 0, !.updated_at = now]
                      ELSE t[k]],
         rowcount |-> Cardinality(hit)]

-----------------------------------------------------------------------------
(* Command line of `crawl` (build_parser) *)

\* The defaults of build_parser, but for retries (default 3).  The delays
\* are in tenths of a second; articles is the article source of `match`
\* (NULL: none of --articles-csv, --xlsx, --articles).
DefaultArgs ==
    [command |-> "crawl", site |-> "both", retry_errors |-> FALSE, max_sitemaps |-> NULL,
     max_pages |-> NULL, max_depth |-> 2, discover_links |-> TRUE, retries |-> 2,
     delay_min |-> 7, delay_max |-> 18, articles |-> NULL]

\* The command lines the model starts a crawl with.
ArgSpace ==
    { DefaultArgs,
      [DefaultArgs EXCEPT !.retry_errors = TRUE],
      [DefaultArgs EXCEPT !.site = RU, !.max_sitemaps = Some(1)],
      [DefaultArgs EXCEPT !.site = RU, !.max_pages = Some(1), !.retries = 1],
      [DefaultArgs EXCEPT !.site = RU, !.max_depth = 1],
      [DefaultArgs EXCEPT !.site = RU, !.max_depth = -1],
      [DefaultArgs EXCEPT !.site = RU, !.discover_links = FALSE] }

\* The command lines of `crawl` given to main: those, and one that
\* parse_args accepts and main refuses
CrawlLines == ArgSpace \cup { [DefaultArgs EXCEPT !.delay_max = 5] }
\* The command lines of `match`
MatchLines ==
    { [DefaultArgs EXCEPT !.command = "match", !.articles = a] : a \in {NULL, Some("--articles")} }

NoArgs == DefaultArgs

\* main: the exit status, by how the command ended: it returned 0, or
\* raised KeyboardInterrupt, or raised another Exception; parser.error
\* exits with status 2 (SystemExit passes through `except Exception`).
\* Mutant: the handler of KeyboardInterrupt is missing, `except Exception`
\* is all there is
exit_status_no_interrupt(ending) ==
    CASE ending = "returned" -> 0
      [] ending = "KeyboardInterrupt" -> 1
      [] ending = "Exception" -> 1
      [] ending = "parser.error" -> 2

exit_status(ending) ==
    CASE ending = "returned" -> 0
      [] ending = "KeyboardInterrupt" -> 130
      [] ending = "Exception" -> 1
      [] ending = "parser.error" -> 2

\* main: if hasattr(args, "delay_max") and args.delay_max < args.delay_min
DelayError(a) == a.command = "crawl" /\ a.delay_max < a.delay_min

selected_sites == IF args.site = "both" THEN <<RU, COM>> ELSE <<args.site>>
site_key == selected_sites[site_idx]

NoRow == [url |-> SeedMark, url_type |-> "", depth |-> 0]
NoResp == Outcome("none", NULL, NoPage, <<>>, <<>>)

\* now_iso()
now == clock

\* sqlite3: Connection.commit() makes the open transaction durable;
\* Connection.close() without commit, and the death of the process, discard it.
commit(committed, working) == working
\* Mutant: closing the connection commits the open transaction
close_commits(committed, working) == working
close(committed, working) == committed

Init ==
    /\ db = EmptyStore
    /\ conn = EmptyStore
    /\ clock = 0
    /\ pc = "idle"
    /\ args = NoArgs
    /\ site_idx = 1
    /\ processed = 0
    /\ row = NoRow
    /\ resp = NoResp
    /\ blocked = FALSE
    /\ reset = 0
    /\ faults = 0
    /\ exit_code = NULL

\* main / run_crawl up to the for loop: a crawl process starts on the store.
StartRun ==
    /\ pc = "idle"
    /\ \E a \in CrawlLines : ~DelayError(a) /\ args' = a
    /\ site_idx' = 1
    /\ pc' = "site"
    /\ conn' = db
    /\ exit_code' = NULL
    /\ UNCHANGED <<db, clock, processed, row, resp, blocked, reset, faults>>

\* main: parser.error("--delay-max must be >= --delay-min")
ParserError ==
    /\ pc = "idle"
    /\ \E a \in CrawlLines : DelayError(a)
    /\ exit_code' = Some(exit_status("parser.error"))
    /\ UNCHANGED <<db, conn, clock, pc, args, site_idx, processed, row, resp, blocked, reset, faults>>

\* run_crawl, run_match: IndexDb(Path(args.db_path)) raises (the file
\* cannot be opened or is not a database); main's `except Exception`
StoreInitFails ==
    /\ pc = "idle"
    /\ exit_code' = Some(exit_status("Exception"))
    /\ UNCHANGED <<db, conn, clock, pc, args, site_idx, processed, row, resp, blocked, reset, faults>>

\* main / run_match up to the try: a match process starts on the store.
StartMatch ==
    /\ pc = "idle"
    /\ \E a \in MatchLines : args' = a
    /\ site_idx' = 1
    /\ pc' = "match"
    /\ conn' = db
    /\ exit_code' = NULL
    /\ UNCHANGED <<db, clock, processed, row, resp, blocked, reset, faults>>

\* run_match with an article source: the articles are loaded and matched,
\* the reports written (the store is only read); finally db.close(); return 0
RunMatch ==
    /\ pc = "match"
    /\ args.articles # NULL
    /\ pc' = "idle"
    /\ conn' = close(db, conn)
    /\ args' = NoArgs
    /\ exit_code' = Some(exit_status("returned"))
    /\ UNCHANGED <<db, clock, site_idx, processed, row, resp, blocked, reset, faults>>

\* run_match: raise RuntimeError("Provide one source: ..."); finally db.close()
MatchNoSource ==
    /\ pc = "match"
    /\ args.articles = NULL
    /\ pc' = "idle"
    /\ conn' = close(db, conn)
    /\ args' = NoArgs
    /\ exit_code' = Some(exit_status("Exception"))
    /\ UNCHANGED <<db, clock, site_idx, processed, row, resp, blocked, reset, faults>>

\* run_crawl: if args.retry_errors: reset = db.reset_errors(site_key); db.commit()
ResetErrors ==
    /\ pc = "site"
    /\ args.retry_errors
    /\ LET r == reset_errors(conn.url_queue, site_key, now)
       IN  /\ conn' = [conn EXCEPT !.url_queue = r.queue]
           /\ db' = commit(db, conn')
           /\ reset' = r.rowcount
    /\ pc' = "sitemap_seed"
    /\ UNCHANGED <<exit_code, clock, args, site_idx, processed, row, resp, blocked, faults>>

SkipReset ==
    /\ pc = "site"
    /\ ~args.retry_errors
    /\ pc' = "sitemap_seed"
    /\ UNCHANGED <<exit_code, db, conn, clock, args, site_idx, processed, row, resp, blocked, reset, faults>>

RECURSIVE EnqueueSitemaps(_, _, _, _, _)
EnqueueSitemaps(t, site, urls, from, at) ==
    IF urls = <<>> THEN t
    ELSE EnqueueSitemaps(enqueue_sitemap(t, site, strip_query_and_fragment(Head(urls)), from, at),
                         site, Tail(urls), from, at)

\* crawl_sitemaps, the loop over site_cfg.sitemap_candidates and db.commit()
RECURSIVE SeedCandidates(_, _, _, _, _)
SeedCandidates(t, site, cands, robots_ok, at) ==
    IF cands = <<>> THEN t
    ELSE LET c == Head(cands)
             t1 == IF c.path = <<"robots.txt">>
                   THEN IF robots_ok
                        THEN EnqueueSitemaps(t, site, RobotsSitemaps(site), Some(c), at)
                        ELSE t
                   ELSE enqueue_sitemap(t, site, strip_query_and_fragment(c), NULL, at)
         IN  SeedCandidates(t1, site, Tail(cands), robots_ok, at)

SeedSitemaps ==
    /\ pc = "sitemap_seed"
    /\ \E robots_ok \in BOOLEAN :
          /\ robots_ok \/ faults < MaxFaults
          /\ faults' = IF robots_ok THEN faults ELSE faults + 1
          /\ conn' = [conn EXCEPT !.sitemaps =
                      SeedCandidates(@, site_key, sitemap_candidates(site_key), robots_ok, now)]
    /\ db' = commit(db, conn')
    /\ processed' = 0
    /\ pc' = "sitemap_next"
    /\ UNCHANGED <<exit_code, clock, args, site_idx, row, resp, blocked, reset>>

\* limit is not None and counter >= limit
Reached(counter, limit) == \E m \in limit : counter >= m

\* Mutant: only category URLs are enqueued from a sitemap
RECURSIVE ProcessLocs_category_only(_, _, _, _, _)
ProcessLocs_category_only(store, site, locs, next_url, at) ==
    IF locs = <<>> THEN store
    ELSE LET clean == strip_query_and_fragment(Head(locs))
             url_type == classify_url(site, clean)
             s1 == IF EndsWithXml(clean)
                   THEN [store EXCEPT !.sitemaps =
                            enqueue_sitemap(@, site, clean, Some(next_url), at)]
                   ELSE IF url_type \in {"category"}
                   THEN [store EXCEPT !.url_queue =
                            enqueue_url(@, site, clean, url_type, 0, Some(next_url), at)]
                   ELSE store
         IN  ProcessLocs_category_only(s1, site, Tail(locs), next_url, at)

\* crawl_sitemaps: the for loop over the <loc> values of one sitemap
RECURSIVE ProcessLocs(_, _, _, _, _)
ProcessLocs(store, site, locs, next_url, at) ==
    IF locs = <<>> THEN store
    ELSE LET clean == strip_query_and_fragment(Head(locs))
             url_type == classify_url(site, clean)
             s1 == IF EndsWithXml(clean)
                   THEN [store EXCEPT !.sitemaps =
                            enqueue_sitemap(@, site, clean, Some(next_url), at)]
                   ELSE IF url_type \in {"product", "category"}
                   THEN [store EXCEPT !.url_queue =
                            enqueue_url(@, site, clean, url_type, 0, Some(next_url), at)]
                   ELSE store
         IN  ProcessLocs(s1, site, Tail(locs), next_url, at)

\* crawl_sitemaps: leaving the while loop (budget used up, or nothing pending)
SitemapsEnd ==
    /\ pc = "sitemap_next"
    /\ \/ Reached(processed, args.max_sitemaps)
       \/ next_pending_sitemap(conn.sitemaps, site_key) = {}
    /\ pc' = "url_seed"
    /\ UNCHANGED <<exit_code, db, conn, clock, args, site_idx, processed, row, resp, blocked, reset, faults>>

\* crawl_sitemaps: one iteration up to (not including) db.commit():
\* get_bytes, parse_sitemap_locs, the enqueues and set_sitemap_status.
CrawlSitemap ==
    /\ pc = "sitemap_next"
    /\ ~Reached(processed, args.max_sitemaps)
    /\ \E next_url \in next_pending_sitemap(conn.sitemaps, site_key) :
       \E ok \in BOOLEAN :
          /\ ok \/ faults < MaxFaults
          /\ faults' = IF ok THEN faults ELSE faults + 1
          /\ row' = [url |-> next_url, url_type |-> "sitemap", depth |-> 0]
          /\ resp' = Outcome(IF ok THEN "ok" ELSE "fail", NULL, NoPage, <<>>, <<>>)
          /\ conn' =
               IF ok
               THEN LET locs == SitemapLocs(next_url)
                        s1 == ProcessLocs(conn, site_key, locs, next_url, now)
                    IN  [s1 EXCEPT !.sitemaps =
                            set_sitemap_status(@, site_key, next_url, "done",
                                               Some(Len(locs)), NULL, now)]
               ELSE [conn EXCEPT !.sitemaps =
                        set_sitemap_status(@, site_key, next_url, "error",
                                           NULL, Some("exc"), now)]
    /\ pc' = "sitemap_commit"
    /\ UNCHANGED <<exit_code, db, clock, args, site_idx, processed, blocked, reset>>

\* crawl_sitemaps: db.commit(), processed += 1 on success
SitemapCommit ==
    /\ pc = "sitemap_commit"
    /\ db' = commit(db, conn)
    /\ processed' = IF resp.kind = "ok" THEN processed + 1 ELSE processed
    /\ row' = NoRow
    /\ resp' = NoResp
    /\ pc' = "sitemap_sleep"
    /\ UNCHANGED <<exit_code, conn, clock, args, site_idx, blocked, reset, faults>>

\* crawl_urls: the seeds and db.commit()
RECURSIVE EnqueueSeeds(_, _, _, _)
EnqueueSeeds(t, site, seeds, at) ==
    IF seeds = <<>> THEN t
    ELSE EnqueueSeeds(enqueue_url(t, site, strip_query_and_fragment(Head(seeds)),
                                  "category", 0, Some(SeedMark), at),
                      site, Tail(seeds), at)

SeedUrls ==
    /\ pc = "url_seed"
    /\ conn' = [conn EXCEPT !.url_queue = EnqueueSeeds(@, site_key, seed_category_urls(site_key), now)]
    /\ db' = commit(db, conn')
    /\ processed' = 0
    /\ pc' = "url_next"
    /\ UNCHANGED <<exit_code, clock, args, site_idx, row, resp, blocked, reset, faults>>

\* Mutant: if max_pages is not None and processed > max_pages
BudgetUsed_late == \E m \in args.max_pages : processed > m

BudgetUsed == Reached(processed, args.max_pages)
AllowedTypes == {"product", "category"}

\* Mutant: an empty queue does not end the loop (`if not row: continue`)
UrlsEnd_budget_only ==
    /\ pc = "url_next"
    /\ BudgetUsed
    /\ IF site_idx < Len(selected_sites)
       THEN /\ site_idx' = site_idx + 1
            /\ pc' = "site"
            /\ UNCHANGED <<exit_code, conn, args>>
       ELSE /\ site_idx' = 1
            /\ pc' = "idle"
            /\ conn' = close(db, conn)
            /\ args' = NoArgs
            /\ exit_code' = Some(exit_status("returned"))
    /\ processed' = 0
    /\ reset' = 0
    /\ UNCHANGED <<db, clock, row, resp, blocked, faults>>

\* crawl_urls: leaving the while loop; run_crawl goes on to the next site,
\* or exports, closes the store and exits.
UrlsEnd ==
    /\ pc = "url_next"
    /\ \/ BudgetUsed
       \/ next_pending_url(conn.url_queue, site_key, AllowedTypes, args.max_depth) = {}
    /\ IF site_idx < Len(selected_sites)
       THEN /\ site_idx' = site_idx + 1
            /\ pc' = "site"
            /\ UNCHANGED <<exit_code, conn, args>>
       ELSE /\ site_idx' = 1
            /\ pc' = "idle"
            /\ conn' = close(db, conn)
            /\ args' = NoArgs
            /\ exit_code' = Some(exit_status("returned"))
    /\ processed' = 0
    /\ reset' = 0
    /\ UNCHANGED <<db, clock, row, resp, blocked, faults>>

\* crawl_urls: next_pending_url, client.get_text and detect_block_page
FetchPage ==
    /\ pc = "url_next"
    /\ ~BudgetUsed
    /\ \E k \in next_pending_url(conn.url_queue, site_key, AllowedTypes, args.max_depth) :
       \E answers \in AnswersOf(k[2], args.retries) :
          LET r == get_text(args.retries, answers)
              cost == IF \A i \in 1..Len(r.seen) : Clean(k[2], answers[i]) THEN 0 ELSE 1
          IN  /\ faults + cost <= MaxFaults
              /\ faults' = faults + cost
              /\ row' = [url |-> k[2], url_type |-> conn.url_queue[k].url_type,
                         depth |-> conn.url_queue[k].depth]
              /\ resp' = r
              /\ blocked' = (r.kind = "ok" /\ detect_block_page(r.page.found))
    /\ pc' = "fetched"
    /\ UNCHANGED <<exit_code, db, conn, clock, args, site_idx, processed, reset>>

\* Mutant: the blocked branch lacks its `continue` before the extraction
MarkBlocked_extracts ==
    /\ pc = "fetched"
    /\ resp.kind = "ok" /\ blocked
    /\ conn' = [conn EXCEPT !.url_queue =
                  set_url_status(@, site_key, row.url, "blocked", Some("200"), TRUE,
                                 Some("captcha_or_block"), now)]
    /\ pc' = "fetched"
    /\ blocked' = FALSE
    /\ UNCHANGED <<exit_code, db, clock, args, site_idx, processed, row, resp, reset, faults>>

\* crawl_urls: the blocked branch up to db.commit()
MarkBlocked ==
    /\ pc = "fetched"
    /\ resp.kind = "ok" /\ blocked
    /\ conn' = [conn EXCEPT !.url_queue =
                  set_url_status(@, site_key, row.url, "blocked", Some("200"), TRUE,
                                 Some("captcha_or_block"), now)]
    /\ pc' = "commit"
    /\ UNCHANGED <<exit_code, db, clock, args, site_idx, processed, row, resp, blocked, reset, faults>>

parse_product(site, page, page_url) ==
    IF site = COM
    THEN IF Truthy(extract_twinset_com_sku_from_url(page_url))
         THEN extract_twinset_com_sku_from_url(page_url)
         ELSE page.sku
    ELSE page.sku

\* crawl_urls: if url_type == "product": parse_product and db.upsert_product
ParsePage ==
    /\ pc = "fetched"
    /\ resp.kind = "ok" /\ ~blocked
    /\ conn' = IF row.url_type = "product"
               THEN LET parsed == parse_product(site_key, resp.page, row.url)
                        found_sku == IF Truthy(parsed) THEN parsed ELSE NULL
                        found_title == IF Truthy(resp.page.title) THEN resp.page.title ELSE NULL
                    IN  upsert_product(conn, site_key, row.url, found_sku, found_title, now)
               ELSE conn
    /\ pc' = "links"
    /\ UNCHANGED <<exit_code, db, clock, args, site_idx, processed, row, resp, blocked, reset, faults>>

\* extract_links: the hrefs, normalised, in order, without duplicates
RECURSIVE extract_links(_)
extract_links(hrefs) ==
    IF hrefs = <<>> THEN <<>>
    ELSE LET rest == extract_links(SubSeq(hrefs, 1, Len(hrefs) - 1))
             u == strip_query_and_fragment(hrefs[Len(hrefs)])
         IN  IF \E i \in 1..Len(rest) : rest[i] = u THEN rest ELSE Append(rest, u)

RECURSIVE EnqueueLinks(_, _, _, _, _, _)
EnqueueLinks(t, site, links, depth, from, at) ==
    IF links = <<>> THEN t
    ELSE LET link == Head(links)
             link_type == classify_url(site, link)
             t1 == IF StartsWithBase(site, link) /\ link_type \in {"product", "category"}
                   THEN enqueue_url(t, site, link, link_type, depth + 1, Some(from), at)
                   ELSE t
         IN  EnqueueLinks(t1, site, Tail(links), depth, from, at)

\* Mutant: if discover_links and depth <= max_depth
DiscoverLinks_inclusive ==
    /\ pc = "links"
    /\ IF args.discover_links /\ row.depth <= args.max_depth
       THEN IF resp.page.bad_href
            THEN /\ pc' = "raised"
                 /\ conn' = conn
            ELSE /\ pc' = "mark"
                 /\ conn' = [conn EXCEPT !.url_queue =
                               EnqueueLinks(@, site_key, extract_links(resp.page.hrefs),
                                            row.depth, row.url, now)]
       ELSE /\ pc' = "mark"
            /\ conn' = conn
    /\ UNCHANGED <<exit_code, db, clock, args, site_idx, processed, row, resp, blocked, reset, faults>>

\* crawl_urls: if discover_links and depth < max_depth: ...
DiscoverLinks ==
    /\ pc = "links"
    /\ IF args.discover_links /\ row.depth < args.max_depth
       THEN IF resp.page.bad_href
            THEN /\ pc' = "raised"          \* extract_links raises ValueError
                 /\ conn' = conn
            ELSE /\ pc' = "mark"
                 /\ conn' = [conn EXCEPT !.url_queue =
                               EnqueueLinks(@, site_key, extract_links(resp.page.hrefs),
                                            row.depth, row.url, now)]
       ELSE /\ pc' = "mark"
            /\ conn' = conn
    /\ UNCHANGED <<exit_code, db, clock, args, site_idx, processed, row, resp, blocked, reset, faults>>

\* crawl_urls: db.set_url_status(..., "done", http_status=200, ...)
MarkDone ==
    /\ pc = "mark"
    /\ conn' = [conn EXCEPT !.url_queue =
                  set_url_status(@, site_key, row.url, "done", Some("200"), FALSE, NULL, now)]
    /\ pc' = "commit"
    /\ UNCHANGED <<exit_code, db, clock, args, site_idx, processed, row, resp, blocked, reset, faults>>

\* crawl_urls: except HTTPError, code in {404, 410}
MarkGone ==
    /\ pc = "fetched"
    /\ resp.kind = "http" /\ resp.code \in {Some("404"), Some("410")}
    /\ conn' = [conn EXCEPT !.url_queue =
                  set_url_status(@, site_key, row.url, "gone", resp.code, FALSE,
                                 Some("HTTP code"), now)]
    /\ pc' = "commit"
    /\ UNCHANGED <<exit_code, db, clock, args, site_idx, processed, row, resp, blocked, reset, faults>>

\* crawl_urls: except HTTPError, any other code
MarkHttpError ==
    /\ pc = "fetched"
    /\ resp.kind = "http" /\ resp.code \notin {Some("404"), Some("410")}
    /\ conn' = [conn EXCEPT !.url_queue =
                  set_url_status(@, site_key, row.url, "error", resp.code, FALSE,
                                 Some("HTTP Error"), now)]
    /\ pc' = "commit"
    /\ UNCHANGED <<exit_code, db, clock, args, site_idx, processed, row, resp, blocked, reset, faults>>

\* Mutant: except RuntimeError (what get_bytes raises) instead of Exception
MarkError_runtime_only ==
    /\ pc = "fetched" /\ resp.kind = "fail"
    /\ conn' = [conn EXCEPT !.url_queue =
                  set_url_status(@, site_key, row.url, "error", NULL, FALSE,
                                 Some("exception"), now)]
    /\ pc' = "commit"
    /\ UNCHANGED <<exit_code, db, clock, args, site_idx, processed, row, resp, blocked, reset, faults>>

\* crawl_urls: except Exception
MarkError ==
    /\ \/ pc = "fetched" /\ resp.kind = "fail"
       \/ pc = "raised"
    /\ conn' = [conn EXCEPT !.url_queue =
                  set_url_status(@, site_key, row.url, "error", NULL, FALSE,
                                 Some("exception"), now)]
    /\ pc' = "commit"
    /\ UNCHANGED <<exit_code, db, clock, args, site_idx, processed, row, resp, blocked, reset, faults>>

\* crawl_urls: db.commit(); processed += 1; the blocked branch then
\* `continue`s to the head of the loop, the other branches fall through to
\* the sleep at the end of the loop body.
CommitPage ==
    /\ pc = "commit"
    /\ db' = commit(db, conn)
    /\ processed' = processed + 1
    /\ row' = NoRow
    /\ resp' = NoResp
    /\ blocked' = FALSE
    /\ pc' = IF resp.kind = "ok" /\ blocked THEN "url_next" ELSE "sleep"
    /\ UNCHANGED <<exit_code, conn, clock, args, site_idx, reset, faults>>

\* crawl_urls, crawl_sitemaps: if delay_max > 0: time.sleep(random.uniform(
\* delay_min, delay_max)), with the default delay_max = 1.8
Sleep ==
    /\ pc \in {"sleep", "sitemap_sleep"}
    /\ pc' = IF pc = "sleep" THEN "url_next" ELSE "sitemap_next"
    /\ UNCHANGED <<exit_code, db, conn, clock, args, site_idx, processed, row, resp, blocked, reset, faults>>

\* The process is interrupted: KeyboardInterrupt reaches the finally of
\* run_crawl or run_match (db.close()), then main's handler; the open
\* transaction is discarded.  (A process killed outright leaves the store
\* in the same state.)  An interrupt counts as a fault of the environment.
Kill ==
    /\ pc # "idle"
    /\ faults < MaxFaults
    /\ faults' = faults + 1
    /\ pc' = "idle"
    /\ conn' = close(db, conn)
    /\ args' = NoArgs
    /\ site_idx' = 1
    /\ processed' = 0
    /\ row' = NoRow
    /\ resp' = NoResp
    /\ blocked' = FALSE
    /\ reset' = 0
    /\ exit_code' = Some(exit_status("KeyboardInterrupt"))
    /\ UNCHANGED <<db, clock>>

Next ==
    \/ StartRun
    \/ ParserError
    \/ StoreInitFails
    \/ StartMatch
    \/ RunMatch
    \/ MatchNoSource
    \/ ResetErrors
    \/ SkipReset
    \/ SeedSitemaps
    \/ SitemapsEnd
    \/ CrawlSitemap
    \/ SitemapCommit
    \/ SeedUrls
    \/ UrlsEnd
    \/ FetchPage
    \/ MarkBlocked
    \/ ParsePage
    \/ DiscoverLinks
    \/ MarkDone
    \/ MarkGone
    \/ MarkHttpError
    \/ MarkError
    \/ CommitPage
    \/ Sleep
    \/ Kill

Spec == Init /\ [][Next]_vars

-----------------------------------------------------------------------------
(* Properties *)

UrlTypes == {"product", "category", "other"}
QueueKeys(store) == DOMAIN store.url_queue
\* the page being processed, as a key of url_queue
CurKey == <<site_key, row.url>>
InPage == pc \in {"fetched", "links", "raised", "mark", "commit"}
Discovering == args.discover_links /\ row.depth < args.max_depth

\* a row next_pending_url may return for the running crawl
EligibleUrl(t, k) ==
    /\ k[1] = site_key
    /\ t[k].status = "pending"
    /\ t[k].url_type \in {"product", "category"}
    /\ t[k].depth <= args.max_depth
\* lexicographic order on (depth, attempts, updated_at)
LexLess(x, y) ==
    \/ x.depth < y.depth
    \/ x.depth = y.depth /\ x.attempts < y.attempts
    \/ x.depth = y.depth /\ x.attempts = y.attempts /\ x.updated_at < y.updated_at

\* A depth no row of the queue has (links are enqueued at depth <= max_depth,
\* which is at most 2), for a second enqueue that differs from the row
OtherDepth == DefaultArgs.max_depth + 2

\* C1: enqueue_url on a key already in url_queue changes nothing: in every
\* reachable state, a call with any url_type, with a depth, a
\* discovered_from and a timestamp other than the row's returns the table
\* as it was (no row changed, none added); and when the crawl has run link
\* discovery on a page, every row that existed before is still what it was.
C1_EnqueueIdempotent ==
    /\ \A k \in QueueKeys(conn) : \A t \in UrlTypes :
            enqueue_url(conn.url_queue, k[1], k[2], t, OtherDepth, Some(RuIndex), clock + 1)
                = conn.url_queue
    /\ pc = "mark" =>
         \A k \in QueueKeys(db) : k \in QueueKeys(conn) /\ conn.url_queue[k] = db.url_queue[k]

\* C1 witness: link discovery has just run on a page that links to a URL
\* already in the queue, whose row has left pending and has another depth
\* than the one the second enqueue passed.
C1_Witness ==
    /\ pc = "mark" /\ Discovering
    /\ \E i \in 1..Len(extract_links(resp.page.hrefs)) :
         LET k == <<site_key, extract_links(resp.page.hrefs)[i]>>
         IN  /\ k \in QueueKeys(db)
             /\ db.url_queue[k].status = "done"
             /\ db.url_queue[k].depth # row.depth + 1
             /\ db.url_queue[k].discovered_from # Some(row.url)

\* C2: done and gone are terminal: a step never changes the status or the
\* attempts of a row whose committed status is done or gone (it stays in the
\* table), and the page a step dequeues and fetches never has committed
\* status done or gone.
C2_Terminal ==
    [][ /\ \A k \in QueueKeys(db) :
             db.url_queue[k].status \in {"done", "gone"} =>
                /\ k \in QueueKeys(db')
                /\ db'.url_queue[k].status = db.url_queue[k].status
                /\ db'.url_queue[k].attempts = db.url_queue[k].attempts
                /\ k \in QueueKeys(conn')
                /\ conn'.url_queue[k].status = db.url_queue[k].status
                /\ conn'.url_queue[k].attempts = db.url_queue[k].attempts
        /\ (pc = "url_next" /\ pc' = "fetched") =>
             db.url_queue[<<site_key, row'.url>>].status \notin {"done", "gone"}
      ]_vars

\* C2 witness: a run with --retry-errors has dequeued and processed a page
\* whose links re-discover a URL that is done, while a URL of the site is gone.
C2_Witness ==
    /\ args.retry_errors /\ pc = "commit" /\ Discovering /\ resp.kind = "ok" /\ ~blocked
    /\ \E k \in QueueKeys(db) : k[1] = site_key /\ db.url_queue[k].status = "gone"
    /\ \E i \in 1..Len(extract_links(resp.page.hrefs)) :
         LET k == <<site_key, extract_links(resp.page.hrefs)[i]>>
         IN  k \in QueueKeys(db) /\ db.url_queue[k].status = "done"

\* C3: a run without --retry-errors changes no url_queue row and no sitemaps
\* row whose committed status is not pending (neither in the store nor in
\* its open transaction), and fetches only pages and sitemaps whose committed
\* status is pending.
C3_OnlyPending ==
    [][ ~args.retry_errors =>
          /\ \A k \in QueueKeys(db) :
                db.url_queue[k].status # "pending" =>
                   /\ k \in QueueKeys(db') /\ db'.url_queue[k] = db.url_queue[k]
                   /\ k \in QueueKeys(conn') /\ conn'.url_queue[k] = db.url_queue[k]
          /\ \A k \in DOMAIN db.sitemaps :
                db.sitemaps[k].status # "pending" =>
                   /\ k \in DOMAIN db'.sitemaps /\ db'.sitemaps[k] = db.sitemaps[k]
                   /\ k \in DOMAIN conn'.sitemaps /\ conn'.sitemaps[k] = db.sitemaps[k]
          /\ (pc = "url_next" /\ pc' = "fetched") =>
                db.url_queue[<<site_key, row'.url>>].status = "pending"
          /\ (pc = "sitemap_next" /\ pc' = "sitemap_commit") =>
                db.sitemaps[<<site_key, row'.url>>].status = "pending"
      ]_vars

\* C3 witness: a run without --retry-errors is processing a page while the
\* store holds a page in status error and a sitemap in status done, both
\* left by earlier work.
C3_Witness ==
    /\ ~args.retry_errors /\ pc = "commit"
    /\ \E k \in QueueKeys(db) : k[1] = site_key /\ db.url_queue[k].status \in {"error", "blocked"}
    /\ \E k \in DOMAIN db.sitemaps : k[1] = site_key /\ db.sitemaps[k].status = "done"

\* C4: the step that runs reset_errors(site) and commits sets to pending,
\* with blocked = 0 and last_error NULL, exactly the rows of that site whose
\* status was error or blocked, keeps their attempts, depth, url_type,
\* last_http_status and discovered_from, leaves every other row of url_queue
\* and the three other tables as they were, adds and removes no row, and
\* returns the number of rows it reset.
C4_ResetFrame ==
    [][ (pc = "site" /\ args.retry_errors /\ pc' = "sitemap_seed") =>
          LET old == db.url_queue
              new == db'.url_queue
              hit == { k \in DOMAIN old : k[1] = site_key /\ old[k].status \in {"error", "blocked"} }
          IN  /\ DOMAIN new = DOMAIN old
              /\ \A k \in hit :
                    /\ new[k].status = "pending" /\ new[k].blocked = 0 /\ new[k].last_error = NULL
                    /\ new[k].attempts = old[k].attempts /\ new[k].depth = old[k].depth
                    /\ new[k].url_type = old[k].url_type
                    /\ new[k].last_http_status = old[k].last_http_status
                    /\ new[k].discovered_from = old[k].discovered_from
              /\ \A k \in DOMAIN old \ hit : new[k] = old[k]
              /\ reset' = Cardinality(hit)
              /\ db'.sitemaps = db.sitemaps /\ db'.products = db.products
              /\ db'.sku_index = db.sku_index
              /\ conn' = db'
      ]_vars

\* C4 witness: reset_errors(twinset.ru) has just reset a row while the queue
\* also holds rows of twinset.com and a row of twinset.ru that is done.
C4_Witness ==
    /\ pc = "sitemap_seed" /\ args.retry_errors /\ site_key = RU /\ reset >= 1
    /\ \E k \in QueueKeys(db) : k[1] = COM /\ db.url_queue[k].status # "pending"
    /\ \E k \in QueueKeys(db) : k[1] = RU /\ db.url_queue[k].status = "done"
    /\ \E k \in QueueKeys(db) :
         k[1] = RU /\ db.url_queue[k].status = "pending" /\ db.url_queue[k].attempts >= 1

\* What processing one dequeued page in full does to the store: the product
\* upsert, the link enqueues and the status update of crawl_urls, together.
PageEffect(store, site, r, rp, blk, a) ==
    LET mark(s, status, http, b, err) ==
            [s EXCEPT !.url_queue = set_url_status(@, site, r.url, status, http, b, err, now)]
        parsed == parse_product(site, rp.page, r.url)
        s1 == IF r.url_type = "product"
              THEN upsert_product(store, site, r.url,
                                  IF Truthy(parsed) THEN parsed ELSE NULL,
                                  IF Truthy(rp.page.title) THEN rp.page.title ELSE NULL, now)
              ELSE store
        s2 == [s1 EXCEPT !.url_queue =
                  EnqueueLinks(@, site, extract_links(rp.page.hrefs), r.depth, r.url, now)]
    IN  CASE rp.kind = "ok" /\ blk ->
               mark(store, "blocked", Some("200"), TRUE, Some("captcha_or_block"))
          [] rp.kind = "ok" /\ ~blk ->
               IF a.discover_links /\ r.depth < a.max_depth
               THEN IF rp.page.bad_href
                    THEN mark(s1, "error", NULL, FALSE, Some("exception"))
                    ELSE mark(s2, "done", Some("200"), FALSE, NULL)
               ELSE mark(s1, "done", Some("200"), FALSE, NULL)
          [] rp.kind = "http" ->
               IF rp.code \in {Some("404"), Some("410")}
               THEN mark(store, "gone", rp.code, FALSE, Some("HTTP code"))
               ELSE mark(store, "error", rp.code, FALSE, Some("HTTP Error"))
          [] OTHER -> mark(store, "error", NULL, FALSE, Some("exception"))

\* C5: per-page effects are atomic in the committed store: while a page is
\* being processed the committed store either stays what it was before the
\* page was dequeued or becomes, in the one step that commits, the result of
\* processing the page in full; a kill or interrupt at any point, like a
\* regular exit, leaves the committed store, hence the effects of all pages
\* processed before, as it is, and the store the next run opens is that
\* committed store, with nothing of the interrupted page in it.
C5_PageAtomic ==
    [][ /\ (InPage /\ db' # db) =>
             (pc = "commit" /\ db' = PageEffect(db, site_key, row, resp, blocked, args))
        /\ (pc # "idle" /\ pc' = "idle") => (db' = db /\ conn' = db)
      ]_vars

\* C5 witness: a product page is about to be committed with a product
\* upsert, an sku_index upsert, a link enqueue and its status update all in
\* the open transaction, none of them in the committed store yet.
C5_Witness ==
    /\ pc = "commit"
    /\ conn.products # db.products
    /\ conn.sku_index # db.sku_index
    /\ QueueKeys(conn) # QueueKeys(db)
    /\ conn.url_queue[CurKey].status = "done" /\ db.url_queue[CurKey].status = "pending"

\* C6 (as stated): when the server has answered a request for the dequeued
\* page with 404 or 410, the item is marked gone, with last_http_status that
\* code and blocked = 0.
C6_GoneOn404 ==
    (pc = "commit" /\ \E i \in 1..Len(resp.seen) : resp.seen[i] \in {"404", "410"}) =>
        /\ conn.url_queue[CurKey].status = "gone"
        /\ conn.url_queue[CurKey].blocked = 0
        /\ \E i \in 1..Len(resp.seen) :
              /\ resp.seen[i] \in {"404", "410"}
              /\ conn.url_queue[CurKey].last_http_status = Some(resp.seen[i])

\* C7 (as stated): an HTTP error response is raised to the caller on its
\* first occurrence: no request follows it, and when it answers the first
\* request, one request was sent and no backoff sleep was made.
C7_NoHttpRetry ==
    InPage =>
        \A i \in 1..Len(resp.seen) :
            resp.seen[i] \in HttpErrorCodes =>
                /\ i = Len(resp.seen)
                /\ resp.kind = "http" /\ resp.code = Some(resp.seen[i])
                /\ (i = 1 => resp.sleeps = <<>>)

\* C8: a fetched page detected as a block page is marked blocked with
\* blocked = 1, and processing it leaves products, sku_index, sitemaps and
\* every other url_queue row as committed and adds no url_queue row.
C8_BlockedNoExtraction ==
    (pc = "commit" /\ resp.kind = "ok" /\ detect_block_page(resp.page.found)) =>
        /\ conn.url_queue[CurKey].status = "blocked"
        /\ conn.url_queue[CurKey].blocked = 1
        /\ conn.products = db.products
        /\ conn.sku_index = db.sku_index
        /\ conn.sitemaps = db.sitemaps
        /\ QueueKeys(conn) = QueueKeys(db)
        /\ \A k \in QueueKeys(db) \ {CurKey} : conn.url_queue[k] = db.url_queue[k]

\* C8 witness: a block page was served for an item of type product, with
\* link discovery enabled and within the depth bound, and the page links to
\* a URL that is not queued yet.
C8_Witness ==
    /\ pc = "commit" /\ resp.kind = "ok" /\ blocked
    /\ row.url_type = "product" /\ Discovering
    /\ \E i \in 1..Len(extract_links(resp.page.hrefs)) :
          /\ <<site_key, extract_links(resp.page.hrefs)[i]>> \notin QueueKeys(db)
          /\ classify_url(site_key, extract_links(resp.page.hrefs)[i]) = "product"

\* The product URLs a sitemap lists, normalised
ProductLocs(site, u) ==
    { x \in { strip_query_and_fragment(SitemapLocs(u)[i]) : i \in 1..Len(SitemapLocs(u)) } :
        classify_url(site, x) = "product" }

\* The listings of the sitemaps that list anything: <<site, sitemap, product URL>>
Listings ==
    UNION { { <<site, u, x>> : x \in ProductLocs(site, u) } :
            site \in Sites, u \in {RuIndex, RuLeafA, RuLeafB, ComIndex} }

\* C10 (as stated): every product URL listed in a sitemap whose status is
\* done has a QueueItem, and that item has depth 0.
C10_SitemapDepth0 ==
    \A l \in Listings :
        (<<l[1], l[2]>> \in DOMAIN db.sitemaps /\ db.sitemaps[<<l[1], l[2]>>].status = "done") =>
            /\ <<l[1], l[3]>> \in QueueKeys(db)
            /\ db.url_queue[<<l[1], l[3]>>].depth = 0

\* C10 (amended): every product URL listed in a sitemap whose status is done
\* has a QueueItem, of type product; the item has depth 0 if sitemap
\* resolution created it (discovered_from is a sitemap that lists it), and
\* otherwise link discovery had created it before, at the depth of the
\* linking page plus one.
C10_SitemapItems ==
    \A l \in Listings :
        (<<l[1], l[2]>> \in DOMAIN db.sitemaps /\ db.sitemaps[<<l[1], l[2]>>].status = "done") =>
            /\ <<l[1], l[3]>> \in QueueKeys(db)
            /\ LET item == db.url_queue[<<l[1], l[3]>>]
               IN  /\ item.url_type = "product"
                   /\ \/ /\ item.depth = 0
                         /\ \E m \in Listings :
                               /\ m[1] = l[1] /\ m[3] = l[3]
                               /\ item.discovered_from = Some(m[2])
                      \/ /\ item.depth >= 1
                         /\ \E p \in QueueKeys(db) :
                               /\ p[1] = l[1] /\ item.discovered_from = Some(p[2])
                               /\ item.depth = db.url_queue[p].depth + 1

\* C10 witness: the index of twinset.ru and its two leaf sitemaps are done,
\* and the queue holds exactly two product items, both at depth 0.
C10_Witness ==
    /\ \A u \in {RuIndex, RuLeafA, RuLeafB} :
          <<RU, u>> \in DOMAIN db.sitemaps /\ db.sitemaps[<<RU, u>>].status = "done"
    /\ LET prod == { k \in QueueKeys(db) : k[1] = RU /\ db.url_queue[k].url_type = "product" }
       IN  Cardinality(prod) = 2 /\ \A k \in prod : db.url_queue[k].depth = 0

Processed == {"done", "gone", "error", "blocked"}

\* C12: attempts counts the completed processing attempts of a URL: a row is
\* created with attempts 0; the status update of a page (to done, gone,
\* error or blocked) adds exactly one to the attempts of that page's row,
\* and the commit of the page adds exactly one to the committed counter; no
\* other step (reset_errors, a re-enqueue by seed, sitemap or link, a kill)
\* changes the attempts of any row, so attempts never decreases, and every
\* row that is not pending has attempts >= 1.
C12_AttemptsCount ==
    [][ /\ \A k \in QueueKeys(db) :
              /\ k \in QueueKeys(db')
              /\ db'.url_queue[k].attempts =
                    IF pc = "commit" /\ pc' # "idle" /\ k = CurKey
                    THEN db.url_queue[k].attempts + 1
                    ELSE db.url_queue[k].attempts
        /\ \A k \in QueueKeys(db') \ QueueKeys(db) :
              db'.url_queue[k].attempts = 0 /\ db'.url_queue[k].status = "pending"
        /\ (pc = "commit" /\ pc' # "idle") => db'.url_queue[CurKey].status \in Processed
        /\ \A k \in QueueKeys(conn) \cap QueueKeys(conn') :
              conn'.url_queue[k].attempts =
                 IF pc' = "idle" THEN db.url_queue[k].attempts
                 ELSE IF pc' = "commit" /\ k = CurKey
                      THEN conn.url_queue[k].attempts + 1
                      ELSE conn.url_queue[k].attempts
        /\ (pc' = "commit") =>
              /\ conn'.url_queue[CurKey].status \in Processed
              /\ conn'.url_queue[CurKey].status # conn.url_queue[CurKey].status
        /\ \A k \in QueueKeys(conn) \cap QueueKeys(conn') :
              conn'.url_queue[k].status # conn.url_queue[k].status =>
                 \/ pc' = "commit" /\ k = CurKey
                 \/ pc = "site" /\ conn'.url_queue[k].status = "pending"
                 \/ pc' = "idle"
        /\ \A k \in QueueKeys(conn') :
              conn'.url_queue[k].status # "pending" => conn'.url_queue[k].attempts >= 1
      ]_vars

\* C12 witness: a committed row is done with attempts = 2: it was processed
\* with an error, reset by --retry-errors and processed again.
C12_Witness ==
    /\ \E k \in QueueKeys(db) :
          db.url_queue[k].status = "done" /\ db.url_queue[k].attempts = 2
    /\ pc = "mark" /\ Discovering
    /\ \E i \in 1..Len(extract_links(resp.page.hrefs)) :
          LET k == <<site_key, extract_links(resp.page.hrefs)[i]>>
          IN  k \in QueueKeys(db) /\ db.url_queue[k].attempts >= 1

\* The rows a step of the running crawl adds to url_queue
Created == QueueKeys(conn') \ QueueKeys(conn)

\* What C13 says of link discovery itself: a step adds rows by link discovery
\* only when discovery is enabled and the page's depth is < max_depth, each
\* at the page's depth + 1, for a link of the page on the site's host that
\* classifies as product or category; no page deeper than max_depth is
\* fetched; with --no-discover-links every row added is a seed or a sitemap
\* URL, at depth 0.
LinkDiscoveryRule ==
    /\ (pc = "links" /\ Created # {}) =>
          /\ args.discover_links /\ row.depth < args.max_depth
          /\ \A k \in Created :
                /\ conn'.url_queue[k].depth = row.depth + 1
                /\ conn'.url_queue[k].discovered_from = Some(row.url)
                /\ k[1] = site_key /\ k[2].host = base_url(site_key)
                /\ classify_url(site_key, k[2]) \in {"product", "category"}
                /\ conn'.url_queue[k].url_type = classify_url(site_key, k[2])
                /\ \E i \in 1..Len(resp.page.hrefs) :
                      k[2] = strip_query_and_fragment(resp.page.hrefs[i])
    /\ (pc # "links" /\ pc # "idle") =>
          \A k \in Created :
             /\ conn'.url_queue[k].depth = 0
             /\ \/ conn'.url_queue[k].discovered_from = Some(SeedMark)
                \/ \E m \in DOMAIN conn.sitemaps :
                      conn'.url_queue[k].discovered_from = Some(m[2])
    /\ (pc = "url_next" /\ pc' = "fetched") => row'.depth <= args.max_depth
    /\ (~args.discover_links /\ pc # "idle") =>
          \A k \in Created :
             /\ conn'.url_queue[k].depth = 0
             /\ \/ conn'.url_queue[k].discovered_from = Some(SeedMark)
                \/ \E m \in DOMAIN conn.sitemaps :
                      conn'.url_queue[k].discovered_from = Some(m[2])

\* C13 (as stated): link discovery is depth-bounded as above, hence a run
\* with a given max_depth never creates a QueueItem with depth > max_depth.
C13_DepthBounded ==
    [][ /\ LinkDiscoveryRule
        /\ pc # "idle" => \A k \in Created : conn'.url_queue[k].depth <= args.max_depth
      ]_vars

\* C13 (amended): link discovery is depth-bounded as above, hence a run
\* never creates a QueueItem by link discovery with depth > max_depth, and a
\* run with max_depth >= 0 creates no QueueItem with depth > max_depth at
\* all; seeds and sitemap URLs are created at depth 0 whatever max_depth is.
C13_DiscoveryBounded ==
    [][ /\ LinkDiscoveryRule
        /\ pc # "idle" =>
              \A k \in Created :
                 \/ conn'.url_queue[k].depth <= args.max_depth
                 \/ /\ args.max_depth < 0 /\ pc # "links"
                    /\ conn'.url_queue[k].depth = 0
      ]_vars

\* C13 witness: link discovery has run on a page one level above max_depth
\* whose links include one to a foreign host that begins like the site's
\* base URL, and has added a row at depth max_depth.
C13_Witness ==
    /\ pc = "mark" /\ Discovering /\ row.depth + 1 = args.max_depth
    /\ \E i \in 1..Len(resp.page.hrefs) :
          /\ StartsWithBase(site_key, resp.page.hrefs[i])
          /\ resp.page.hrefs[i].host # base_url(site_key)
    /\ \E k \in QueueKeys(conn) \ QueueKeys(db) :
          conn.url_queue[k].depth = args.max_depth

\* C17 (as stated): with delay_max > 0 the crawl sleeps between every two
\* consecutive fetches: after the commit of a page, whatever its outcome
\* (done, gone, error or blocked), and after the commit of a sitemap, the
\* next step of the running crawl is the rate-limiting sleep.
C17_SleepBetweenFetches ==
    [][ /\ (pc = "commit" /\ pc' # "idle") => pc' = "sleep"
        /\ (pc = "sitemap_commit" /\ pc' # "idle") => pc' = "sitemap_sleep"
        /\ pc' = "fetched" => pc = "url_next"
        /\ (pc' = "url_next" /\ pc # "url_next") => pc \in {"url_seed", "sleep"}
        /\ (pc' = "sitemap_next" /\ pc # "sitemap_next") => pc \in {"sitemap_seed", "sitemap_sleep"}
      ]_vars

\* C19 (as stated): in every reachable state every URL stored in url_queue
\* is a fixed point of normalisation (no query, no fragment, and normalising
\* it again returns it unchanged), so no two rows of a site have URLs that
\* normalise to the same string, whether a seed, a sitemap or a link
\* produced them.
C19_StoredNormalized ==
    \A store \in {conn, db} :
        /\ \A k \in QueueKeys(store) :
              /\ k[2].query = "" /\ k[2].fragment = ""
              /\ strip_query_and_fragment(k[2]) = k[2]
        /\ \A k1, k2 \in QueueKeys(store) :
              (k1[1] = k2[1]
               /\ strip_query_and_fragment(k1[2]) = strip_query_and_fragment(k2[2]))
              => k1 = k2

\* C20 (as stated): in every reachable state, for both sites, the url_type
\* stored on each row of url_queue, whether a seed, a sitemap or a
\* discovered link created it, equals classify_url(site, url), and no step
\* changes the url_type of an existing row.
C20_StoredClassification ==
    /\ [](\A store \in {conn, db} : \A k \in QueueKeys(store) :
             store.url_queue[k].url_type = classify_url(k[1], k[2]))
    /\ [][\A k \in QueueKeys(conn) \cap QueueKeys(conn') :
             conn'.url_queue[k].url_type = conn.url_queue[k].url_type]_vars

\* the SKU crawl_urls derives from the page being processed (found_sku)
FoundSku ==
    LET parsed == parse_product(site_key, resp.page, row.url)
    IN  IF Truthy(parsed) THEN parsed ELSE NULL
\* the page being processed is a product page that was fetched, is not a
\* block page and yields no SKU
NoSkuPage ==
    /\ pc \in {"links", "raised", "mark", "commit"}
    /\ resp.kind = "ok" /\ ~blocked
    /\ row.url_type = "product" /\ FoundSku = NULL
\* extract_links raises on the page being processed
LinksRaise == Discovering /\ resp.page.bad_href
\* the rows of sku_index for the page being processed
SkuRowsOf(store) == { k \in DOMAIN store.sku_index : k[1] = site_key /\ k[3] = row.url }

\* C22 (as stated): a product page that is fetched, is not a block page and
\* yields no SKU ends with status done and with a products row whose sku is
\* NULL, and adds no sku_index row; sku_index never holds a row with a NULL
\* or empty sku.
C22_NoSkuIsDone ==
    /\ (NoSkuPage /\ pc = "commit") =>
          /\ conn.url_queue[CurKey].status = "done"
          /\ CurKey \in DOMAIN conn.products /\ conn.products[CurKey].sku = NULL
          /\ SkuRowsOf(conn) = SkuRowsOf(db)
    /\ \A store \in {conn, db} : \A k \in DOMAIN store.sku_index : Truthy(k[2])

\* C22 (amended): such a page gets a products row whose sku is NULL and adds
\* no sku_index row; it ends with status done unless link extraction raises
\* on it (a malformed href, with link discovery on and depth < max_depth),
\* and then it ends with status error, the products row being kept;
\* sku_index never holds a row with a NULL or empty sku.
C22_NoSkuRecorded ==
    /\ NoSkuPage =>
          /\ CurKey \in DOMAIN conn.products /\ conn.products[CurKey].sku = NULL
          /\ SkuRowsOf(conn) = SkuRowsOf(db)
    /\ (NoSkuPage /\ pc = "commit") =>
          conn.url_queue[CurKey].status = IF LinksRaise THEN "error" ELSE "done"
    /\ \A store \in {conn, db} : \A k \in DOMAIN store.sku_index : Truthy(k[2])

\* C22 witness: a product page without SKU has been processed and is about
\* to be committed as done, with its products row holding a NULL sku, while
\* sku_index holds rows of other pages.
C22_Witness ==
    /\ NoSkuPage /\ pc = "commit" /\ ~LinksRaise
    /\ conn.url_queue[CurKey].status = "done"
    /\ conn.products[CurKey].sku = NULL
    /\ SkuRowsOf(conn) = {}
    /\ conn.sku_index # EmptyTable

\* C23 (as stated): after a sitemap is marked done, each of its <loc> values
\* that does not end in .xml/.xml.gz has a row in url_queue whose url_type
\* is its classification: product, category or other.
C23_EveryLocEnqueued ==
    \A store \in {conn, db} : \A k \in DOMAIN store.sitemaps :
        store.sitemaps[k].status = "done" =>
            \A i \in 1..Len(SitemapLocs(k[2])) :
                LET clean == strip_query_and_fragment(SitemapLocs(k[2])[i])
                IN  ~EndsWithXml(clean) =>
                       /\ <<k[1], clean>> \in QueueKeys(store)
                       /\ store.url_queue[<<k[1], clean>>].url_type = classify_url(k[1], clean)

\* run_crawl is about to return 0: the loop of crawl_urls ends for the last
\* of the selected sites
CrawlCompletes ==
    /\ pc = "url_next" /\ site_idx = Len(selected_sites)
    /\ \/ BudgetUsed
       \/ next_pending_url(conn.url_queue, site_key, AllowedTypes, args.max_depth) = {}

\* C24: the process exits with 0 when the command completes, with 130 when
\* it is interrupted at any point of a crawl or a match, with 1 when another
\* exception escapes the command (the store cannot be initialised, no
\* article source is given to match), and through the argument parser,
\* with a non-zero status and without starting, when --delay-max is less
\* than --delay-min; when a process ends, however it ends, the store holds
\* what was committed and nothing of a page in progress.
C24_ExitStatus ==
    /\ [](pc # "idle" => exit_code = NULL)
    /\ [][ /\ (pc # "idle" /\ pc' = "idle") =>
                /\ db' = db /\ conn' = db
                /\ exit_code' \in {Some(0), Some(1), Some(130)}
                /\ exit_code' = Some(0) =>
                      \/ pc = "match" /\ args.articles # NULL
                      \/ CrawlCompletes
                /\ exit_code' = Some(1) => (pc = "match" /\ args.articles = NULL)
                /\ (pc = "match" /\ exit_code' # Some(130)) =>
                      exit_code' = IF args.articles = NULL THEN Some(1) ELSE Some(0)
           /\ (pc = "idle" /\ pc' = "idle") =>
                /\ exit_code' \in {Some(1), Some(2)}
                /\ db' = db /\ conn' = conn
           /\ (pc = "idle" /\ pc' # "idle") =>
                /\ ~DelayError(args')
                /\ exit_code' = NULL
         ]_vars

\* C24 witness: a crawl was interrupted after it had committed a page as
\* done and while other pages were pending; the process has exited with 130
\* and the store is the committed one.
C24_Witness ==
    /\ pc = "idle" /\ exit_code = Some(130) /\ conn = db
    /\ \E k \in QueueKeys(db) : db.url_queue[k].status = "done"
    /\ \E k \in QueueKeys(db) : db.url_queue[k].status = "pending"
                                /\ db.url_queue[k].url_type = "product"

\* C28 (as stated): when the processing of a dequeued page ends with the row
\* in status error, the attempt commits no change to products or sku_index
\* and adds no row to url_queue: only the row's own status, attempts,
\* last_http_status, blocked, last_error and updated_at change.
C28_ErrorNoEffects ==
    (pc = "commit" /\ conn.url_queue[CurKey].status = "error") =>
        /\ conn.products = db.products
        /\ conn.sku_index = db.sku_index
        /\ QueueKeys(conn) = QueueKeys(db)
        /\ \A k \in QueueKeys(db) \ {CurKey} : conn.url_queue[k] = db.url_queue[k]
        /\ conn.url_queue[CurKey].url_type = db.url_queue[CurKey].url_type
        /\ conn.url_queue[CurKey].depth = db.url_queue[CurKey].depth
        /\ conn.url_queue[CurKey].discovered_from = db.url_queue[CurKey].discovered_from

\* C29: status and bookkeeping of url_queue agree in every committed state
\* (and in the open transaction): blocked = 1 exactly when status is
\* blocked; pending and done rows have no last_error; gone rows have
\* last_http_status 404 or 410; done rows have last_http_status 200; error
\* and blocked rows have a last_error.
C29_Bookkeeping ==
    \A store \in {db, conn} : \A k \in QueueKeys(store) :
        LET item == store.url_queue[k]
        IN  /\ item.blocked \in {0, 1}
            /\ (item.blocked = 1) <=> (item.status = "blocked")
            /\ item.status \in {"pending", "done"} => item.last_error = NULL
            /\ item.status = "gone" => item.last_http_status \in {Some("404"), Some("410")}
            /\ item.status = "done" => item.last_http_status = Some("200")
            /\ item.status \in {"error", "blocked"} => item.last_error # NULL

\* C29 witness: the committed store holds a done row and a row that was
\* blocked and then reset: pending again, processed once, blocked = 0, no
\* last_error, last_http_status still 200.
C29_Witness ==
    /\ \E k \in QueueKeys(db) : db.url_queue[k].status = "done"
    /\ \E k \in QueueKeys(db) :
          /\ db.url_queue[k].status = "pending" /\ db.url_queue[k].attempts = 1
          /\ db.url_queue[k].last_http_status = Some("200")
          /\ db.url_queue[k].blocked = 0 /\ db.url_queue[k].last_error = NULL

-----------------------------------------------------------------------------
(* detect_block_page on its own: every text over the six markers *)

MarkerTexts == SUBSET (MarkerSet \X Casings)

InitBlock ==
    /\ db = EmptyStore
    /\ conn = EmptyStore
    /\ clock = 0
    /\ pc = "detect"
    /\ args = NoArgs
    /\ site_idx = 1
    /\ processed = 0
    /\ row = NoRow
    /\ \E found \in MarkerTexts :
          resp = Outcome("ok", Some("200"), Page(found, NULL, NULL, <<>>, FALSE), <<"200">>, <<>>)
    /\ blocked = FALSE
    /\ reset = 0
    /\ faults = 0
    /\ exit_code = NULL

\* crawl_urls: blocked = detect_block_page(page_html)
Detect ==
    /\ pc = "detect"
    /\ blocked' = detect_block_page(resp.page.found)
    /\ pc' = "detected"
    /\ UNCHANGED <<exit_code, db, conn, clock, args, site_idx, processed, row, resp, reset, faults>>

NextBlock == Detect

SpecBlock == InitBlock /\ [][NextBlock]_vars

\* the marker occurs in the text, in whatever letter case
Occurs(found, marker) == \E c \in Casings : <<marker, c>> \in found

\* C9: detect_block_page is true exactly when at least two of the six
\* markers occur, case-insensitively, or "cf-challenge" occurs; so captcha
\* with access denied is blocked, captcha alone is not, cf-challenge alone is.
C9_BlockRule ==
    pc = "detected" =>
        LET found == resp.page.found
            present == { m \in MarkerSet : Occurs(found, m) }
        IN  /\ blocked = (Cardinality(present) >= 2 \/ "cf-challenge" \in present)
            /\ present = {"captcha", "access denied"} => blocked
            /\ present = {"captcha"} => ~blocked
            /\ present = {"cf-challenge"} => blocked

\* C9 witness: a text with CAPTCHA in capitals and access denied in lower
\* case, and nothing else, has been classified as a block page.
C9_Witness ==
    /\ pc = "detected" /\ blocked
    /\ resp.page.found = {<<"captcha", "UPPER">>, <<"access denied", "lower">>}

-----------------------------------------------------------------------------
(* crawl_urls draining a queue left by earlier runs: rows of any depth,    *)
(* attempts and age, with servers that answer regularly                    *)

PickRow(url_type, status, depth, from, attempts, at) ==
    [url_type |-> url_type, status |-> status, depth |-> depth,
     discovered_from |-> from, attempts |-> attempts,
     last_http_status |-> IF status = "done" THEN Some("200") ELSE NULL,
     blocked |-> 0, last_error |-> NULL, updated_at |-> at]

\* <<status, attempts>> of a row: never attempted, reset after an attempt, done
PickProgress == {<<"pending", 0>>, <<"pending", 1>>, <<"done", 1>>}
\* depth 3 was enqueued by a run with a larger --max-depth
PickDepths == {0, 1, 3}
PickTimes == {0, 1}

PickFixed ==
    (<<RU, RuStale>> :> PickRow("other", "pending", 0, Some(RuLeafA), 0, 0))
      @@ (<<COM, strip_query_and_fragment(ComSeed)>> :>
            PickRow("category", "pending", 0, Some(SeedMark), 0, 0))

PickQueues ==
    { (<<RU, RuSeed>> :> PickRow("category", s[1], 0, Some(SeedMark), s[2], st))
        @@ (<<RU, RuP1>> :> PickRow("product", a[1], ad, Some(RuLeafA), a[2], at))
        @@ (<<RU, RuP2>> :> PickRow("product", b[1], bd, Some(RuLeafB), b[2], bt))
        @@ PickFixed :
      s \in PickProgress, st \in PickTimes,
      a \in PickProgress, ad \in PickDepths, at \in PickTimes,
      b \in PickProgress, bd \in PickDepths, bt \in PickTimes }

InitPick ==
    /\ \E q \in PickQueues : db = [EmptyStore EXCEPT !.url_queue = q]
    /\ conn = db
    /\ clock = 0
    /\ pc = "url_next"
    /\ args = [DefaultArgs EXCEPT !.site = RU]
    /\ site_idx = 1
    /\ processed = 0
    /\ row = NoRow
    /\ resp = NoResp
    /\ blocked = FALSE
    /\ reset = 0
    /\ faults = MaxFaults
    /\ exit_code = NULL

NextPick ==
    \/ FetchPage
    \/ ParsePage
    \/ DiscoverLinks
    \/ MarkDone
    \/ CommitPage
    \/ Sleep
    \/ UrlsEnd

SpecPick == InitPick /\ [][NextPick]_vars

\* C11: the row the crawl loop dequeues is pending, of an allowed type and
\* of depth <= max_depth, and no such row of the site is lexicographically
\* smaller in (depth, attempts, updated_at); the loop finds no row exactly
\* when no such row exists.  So no URL is fetched while an eligible pending
\* URL of smaller depth exists, and among equal depths no attempted URL is
\* fetched while a never-attempted one is eligible.
C11_PickOrder ==
    [][ LET t == conn.url_queue
            cur == <<site_key, row'.url>>
            eligible == { k \in DOMAIN t : EligibleUrl(t, k) }
        IN  /\ (pc = "url_next" /\ pc' = "fetched") =>
                  /\ cur \in eligible
                  /\ row'.depth = t[cur].depth /\ row'.url_type = t[cur].url_type
                  /\ \A k \in eligible : ~LexLess(t[k], t[cur])
                  /\ \A k \in eligible : t[k].depth >= t[cur].depth
                  /\ \A k \in eligible :
                        (t[k].depth = t[cur].depth /\ t[k].attempts = 0) => t[cur].attempts = 0
            /\ (pc = "url_next" /\ pc' # "fetched") => eligible = {}
      ]_vars

\* C11 witness: a page has been dequeued while another eligible row has the
\* same depth and attempts but a later updated_at, a third one the same
\* depth but an attempt behind it, and rows that are not eligible (done,
\* beyond max_depth, of type other, of the other site) are in the queue.
C11_Witness ==
    /\ pc = "fetched"
    /\ LET t == conn.url_queue
           cur == t[CurKey]
       IN  /\ \E k \in DOMAIN t :
                 /\ EligibleUrl(t, k) /\ t[k].depth = cur.depth
                 /\ t[k].attempts = cur.attempts /\ t[k].updated_at > cur.updated_at
           /\ \E k \in DOMAIN t :
                 EligibleUrl(t, k) /\ t[k].depth = cur.depth /\ t[k].attempts > cur.attempts
           /\ \E k \in DOMAIN t : t[k].url_type = "other" /\ t[k].status = "pending"

-----------------------------------------------------------------------------
(* The loop of crawl_urls on the queue that sitemap resolution and the     *)
(* seeds leave, with servers that misbehave, and no kill                   *)

LoopQueue ==
    (<<RU, RuSeed>> :> PickRow("category", "pending", 0, Some(SeedMark), 0, 0))
      @@ (<<RU, RuP1>> :> PickRow("product", "pending", 0, Some(RuLeafA), 0, 0))

LoopArgs ==
    { [DefaultArgs EXCEPT !.site = RU, !.max_depth = d, !.max_pages = m, !.retries = r] :
      d \in {0, 2}, m \in {NULL, Some(1), Some(2)}, r \in {1, 2} }

InitLoop ==
    /\ db = [EmptyStore EXCEPT !.url_queue = LoopQueue]
    /\ conn = db
    /\ clock = 0
    /\ pc = "url_next"
    /\ args \in LoopArgs
    /\ site_idx = 1
    /\ processed = 0
    /\ row = NoRow
    /\ resp = NoResp
    /\ blocked = FALSE
    /\ reset = 0
    /\ faults = 0
    /\ exit_code = NULL

NextLoop ==
    \/ FetchPage
    \/ MarkBlocked
    \/ ParsePage
    \/ DiscoverLinks
    \/ MarkDone
    \/ MarkGone
    \/ MarkHttpError
    \/ MarkError
    \/ CommitPage
    \/ Sleep
    \/ UrlsEnd

SpecLoop == InitLoop /\ [][NextLoop]_vars

\* C14: no per-page fault aborts the crawl: whatever get_text returned or
\* raised (HTTPError, RuntimeError after the retries) and whether or not
\* link extraction raises, the loop body has a next step until the page's
\* status is recorded and committed, the recorded status is done, gone,
\* error or blocked, and the loop then dequeues the next pending item if
\* there is one and the budget allows; an HTTPError with a code other than
\* 404/410 is recorded as error with last_http_status that code and
\* blocked = 0, any other exception as error.
C14_NoAbort ==
    /\ InPage => ENABLED NextLoop
    /\ pc = "commit" =>
          LET item == conn.url_queue[CurKey]
          IN  /\ item.status \in Processed
              /\ (resp.kind = "http" /\ resp.code \notin {Some("404"), Some("410")}) =>
                    /\ item.status = "error" /\ item.blocked = 0
                    /\ item.last_http_status = resp.code
              /\ resp.kind = "fail" => (item.status = "error" /\ item.blocked = 0)
              /\ (resp.kind = "ok" /\ ~blocked /\ Discovering /\ resp.page.bad_href) =>
                    (item.status = "error" /\ item.blocked = 0)
    /\ (pc = "url_next" /\ ~BudgetUsed
          /\ \E k \in QueueKeys(conn) : EligibleUrl(conn.url_queue, k)) =>
             /\ ~ENABLED UrlsEnd
             /\ next_pending_url(conn.url_queue, site_key, AllowedTypes, args.max_depth) # {}

\* C14 witness: a page answered 500 on every attempt is recorded as error
\* while another eligible pending page waits in the queue.
C14_Witness ==
    /\ pc = "commit" /\ resp.kind = "http" /\ resp.code = Some("500")
    /\ Len(resp.seen) = args.retries
    /\ \E k \in QueueKeys(conn) : k # CurKey /\ EligibleUrl(conn.url_queue, k)

\* The scheduler runs the crawler process as long as it has a step to take.
FairLoop == SpecLoop /\ WF_vars(NextLoop)

\* C15: the crawl loop terminates: on the finite site, whose pages link to
\* each other in a cycle, and for each max_depth, crawl_urls eventually
\* returns; and when it returns without the max_pages budget being reached,
\* no row of the site that is pending, of type product or category and of
\* depth <= max_depth remains.
C15_LoopTerminates ==
    /\ <>(pc = "idle")
    /\ [][ (pc = "url_next" /\ pc' # "fetched" /\ ~BudgetUsed) =>
              /\ \A k \in QueueKeys(conn) : ~EligibleUrl(conn.url_queue, k)
              /\ \A k \in QueueKeys(db) : ~EligibleUrl(db.url_queue, k)
         ]_vars

\* C15 witness: crawl_urls has returned with every row processed, among them
\* the category page and the product page that link to each other and a
\* page found by link discovery.
C15_Witness ==
    /\ pc = "idle"
    /\ \A k \in QueueKeys(db) : db.url_queue[k].status \in Processed
    /\ db.url_queue[<<RU, RuSeed>>].status = "done"
    /\ db.url_queue[<<RU, RuP1>>].status = "done"
    /\ \E k \in QueueKeys(db) : db.url_queue[k].depth = 1

\* the number of times the rows of a site have been processed
RECURSIVE SumAttempts(_, _)
SumAttempts(t, keys) ==
    IF keys = {} THEN 0
    ELSE LET k == CHOOSE x \in keys : TRUE
         IN  t[k].attempts + SumAttempts(t, keys \ {k})
Attempted(store) ==
    SumAttempts(store.url_queue, { k \in QueueKeys(store) : k[1] = site_key })

\* C25: with max_pages = N, one call of crawl_urls (here on a queue whose
\* rows are all pending and unprocessed) fetches at most N pages and changes
\* the status of at most N rows of the site, whatever the outcome of each
\* page: done, gone, error or blocked.
C25_PageBudget ==
    \A n \in args.max_pages :
        /\ Attempted(conn) <= n
        /\ Cardinality({ k \in QueueKeys(conn) : conn.url_queue[k].status # "pending" }) <= n
        /\ InPage => Attempted(db) + 1 <= n
        /\ processed = Attempted(db)

\* C25 witness: with max_pages = 2 two pages have been processed, one of
\* them with an outcome other than done, the loop has stopped on the budget
\* and a pending page is left.
C25_Witness ==
    /\ args.max_pages = Some(2) /\ pc = "url_next" /\ BudgetUsed
    /\ Attempted(db) = 2
    /\ \E k \in QueueKeys(db) : db.url_queue[k].status \in {"gone", "error", "blocked"}
    /\ \E k \in QueueKeys(db) : EligibleUrl(db.url_queue, k)

-----------------------------------------------------------------------------
(* The loop of crawl_urls in a run with --retry-errors, on the store an     *)
(* earlier run left: one product page was indexed and then ended in error  *)
(* (its link extraction raised), the other met HTTP 500; both are reset to *)
(* pending, and the servers misbehave again                                *)

\* a row as reset_errors leaves it after one failed attempt
ResetRow(url_type, http_status, from) ==
    [url_type |-> url_type, status |-> "pending", depth |-> 0,
     discovered_from |-> from, attempts |-> 1,
     last_http_status |-> http_status, blocked |-> 0, last_error |-> NULL,
     updated_at |-> 0]

RetryQueue ==
    (<<RU, RuSeed>> :> PickRow("category", "done", 0, Some(SeedMark), 1, 0))
      @@ (<<RU, RuP1>> :> ResetRow("product", NULL, Some(RuLeafA)))
      @@ (<<RU, RuP2>> :> ResetRow("product", Some("500"), Some(RuLeafB)))

RetryStore ==
    upsert_product([EmptyStore EXCEPT !.url_queue = RetryQueue],
                   RU, RuP1, PageSku(RuP1), PageTitle(RuP1), 0)

RetryArgs ==
    { [DefaultArgs EXCEPT !.site = RU, !.retry_errors = TRUE, !.retries = r] : r \in 1..3 }

InitRetry ==
    /\ db = RetryStore
    /\ conn = db
    /\ clock = 0
    /\ pc = "url_next"
    /\ args \in RetryArgs
    /\ site_idx = 1
    /\ processed = 0
    /\ row = NoRow
    /\ resp = NoResp
    /\ blocked = FALSE
    /\ reset = 2
    /\ faults = 0
    /\ exit_code = NULL

NextRetry ==
    \/ FetchPage
    \/ MarkBlocked
    \/ ParsePage
    \/ DiscoverLinks
    \/ MarkDone
    \/ MarkGone
    \/ MarkHttpError
    \/ MarkError
    \/ CommitPage
    \/ Sleep
    \/ UrlsEnd

SpecRetry == InitRetry /\ [][NextRetry]_vars

\* every request get_bytes sent met a timeout or a connection error
AllNet == \A i \in 1..Len(resp.seen) : resp.seen[i] = "net"

\* C27: with retries = N >= 1 and a URL whose every request fails below
\* HTTP, get_bytes sends exactly N requests, sleeps after each failed
\* attempt but the last, 1.2 s times the attempt number, and raises a
\* non-HTTP failure; the loop then records the row as error, with blocked = 0
\* and last_http_status what it was before the attempt.
C27_NetworkRetries ==
    (pc \in {"fetched", "commit"} /\ resp.seen # <<>> /\ AllNet) =>
        /\ Len(resp.seen) = args.retries
        /\ resp.kind = "fail"
        /\ resp.sleeps = [i \in 1..(args.retries - 1) |-> BackoffTenths * i]
        /\ pc = "commit" =>
              /\ conn.url_queue[CurKey].status = "error"
              /\ conn.url_queue[CurKey].blocked = 0
              /\ conn.url_queue[CurKey].last_error # NULL
              /\ conn.url_queue[CurKey].last_http_status = db.url_queue[CurKey].last_http_status
              /\ conn.url_queue[CurKey].attempts = db.url_queue[CurKey].attempts + 1

\* C27 witness: with retries = 3 all three requests for a page that an
\* earlier run had left with HTTP status 500 met a network failure; two
\* backoff sleeps were made and the row is error, still with status 500.
C27_Witness ==
    /\ pc = "commit" /\ args.retries = 3
    /\ resp.seen = <<"net", "net", "net">>
    /\ Len(resp.sleeps) = 2
    /\ conn.url_queue[CurKey].status = "error"
    /\ conn.url_queue[CurKey].last_http_status = Some("500")

\* C30 (as stated): in every committed state, also after a page is crawled
\* again after reset_errors and its content has changed, every sku_index
\* row (site, sku, url) has a products row (site, url) with that sku, and
\* url is a url_queue row of type product with attempts >= 1.
C30_IndexAgrees ==
    \A k \in DOMAIN db.sku_index :
        LET item == <<k[1], k[3]>>
        IN  /\ item \in DOMAIN db.products
            /\ db.products[item].sku = k[2]
            /\ item \in QueueKeys(db)
            /\ db.url_queue[item].url_type = "product"
            /\ db.url_queue[item].attempts >= 1

-----------------------------------------------------------------------------
(* crawl_sitemaps on an empty store, with servers that misbehave, no kill  *)

MapsArgs ==
    { [DefaultArgs EXCEPT !.site = s, !.max_sitemaps = m] :
      s \in Sites \cup {"both"}, m \in {NULL, Some(1), Some(2)} }

InitMaps ==
    /\ db = EmptyStore
    /\ conn = EmptyStore
    /\ clock = 0
    /\ pc = "sitemap_seed"
    /\ args \in MapsArgs
    /\ site_idx = 1
    /\ processed = 0
    /\ row = NoRow
    /\ resp = NoResp
    /\ blocked = FALSE
    /\ reset = 0
    /\ faults = 0
    /\ exit_code = NULL

NextMaps ==
    \/ SeedSitemaps
    \/ CrawlSitemap
    \/ SitemapCommit
    \/ Sleep
    \/ SitemapsEnd

SpecMaps == InitMaps /\ [][NextMaps]_vars

\* The scheduler runs the crawler process as long as it has a step to take.
FairMaps == SpecMaps /\ WF_vars(NextMaps)

PendingSitemaps(store, site) ==
    { k \in DOMAIN store.sitemaps : k[1] = site /\ store.sitemaps[k].status = "pending" }

\* C16: sitemap resolution terminates and isolates failures: on sites whose
\* sitemaps list their index and themselves, crawl_sitemaps eventually
\* returns; the sitemap it fetches is pending and was never fetched, and
\* becomes done, or error with a message when its fetch or parse fails, so
\* no sitemap is fetched twice; and without a max_sitemaps limit it returns
\* only when no sitemap of the site is pending, whatever failed before.
C16_SitemapsTerminate ==
    /\ <>(pc = "url_seed")
    /\ [][ /\ (pc = "sitemap_next" /\ pc' = "sitemap_commit") =>
                LET k == <<site_key, row'.url>>
                IN  /\ k \in PendingSitemaps(conn, site_key)
                    /\ conn.sitemaps[k].attempts = 0
                    /\ conn'.sitemaps[k].attempts = 1
                    /\ conn'.sitemaps[k].status = IF resp'.kind = "ok" THEN "done" ELSE "error"
                    /\ conn'.sitemaps[k].status = "error" <=> conn'.sitemaps[k].last_error # NULL
                    /\ \A j \in DOMAIN conn.sitemaps \ {k} : conn'.sitemaps[j] = conn.sitemaps[j]
           /\ \A k \in DOMAIN db.sitemaps :
                 /\ k \in DOMAIN db'.sitemaps
                 /\ db.sitemaps[k].status # "pending" => db'.sitemaps[k] = db.sitemaps[k]
           /\ (pc = "sitemap_next" /\ pc' = "url_seed" /\ args.max_sitemaps = NULL) =>
                 /\ PendingSitemaps(conn, site_key) = {}
                 /\ PendingSitemaps(db, site_key) = {}
         ]_vars

\* C16 witness: crawl_sitemaps has returned; the index and the leaf that
\* lists the index are done, the leaf that lists itself is in error.
C16_Witness ==
    /\ pc = "url_seed"
    /\ {<<RU, RuIndex>>, <<RU, RuLeafA>>, <<RU, RuLeafB>>} \subseteq DOMAIN db.sitemaps
    /\ db.sitemaps[<<RU, RuIndex>>].status = "done"
    /\ db.sitemaps[<<RU, RuLeafB>>].status = "done"
    /\ db.sitemaps[<<RU, RuLeafA>>].status = "error"

\* C26 (as stated): with max_sitemaps = M, one call of crawl_sitemaps (here
\* on an empty store) fetches at most M sitemaps and changes the status of
\* at most M sitemaps rows, whether those sitemaps end done or error.
C26_SitemapBudget ==
    \A m \in args.max_sitemaps :
        Cardinality({ k \in DOMAIN conn.sitemaps :
                        k[1] = site_key /\ conn.sitemaps[k].status # "pending" }) <= m

-----------------------------------------------------------------------------
(* strip_query_and_fragment on its own: the URLs of both hosts with up to  *)
(* MaxSegments path segments, with and without query and fragment; row     *)
(* holds the argument of the call and resp its result                      *)

NormSegments == {"row", "women", ""}
RECURSIVE NormPaths(_)
NormPaths(n) ==
    IF n = 0 THEN {<<>>}
    ELSE NormPaths(n - 1) \cup
         { Append(p, s) : p \in { q \in NormPaths(n - 1) : Len(q) = n - 1 }, s \in NormSegments }
NormUrls ==
    [host : {"twinset.ru", "www.twinset.com"}, path : NormPaths(MaxSegments),
     query : {"", "utm=1"}, fragment : {"", "top"}]

InitNorm ==
    /\ db = EmptyStore
    /\ conn = EmptyStore
    /\ clock = 0
    /\ pc = "norm"
    /\ args = NoArgs
    /\ site_idx = 1
    /\ processed = 0
    /\ row \in NormUrls
    /\ resp = row
    /\ blocked = FALSE
    /\ reset = 0
    /\ faults = 0
    /\ exit_code = NULL

\* clean = strip_query_and_fragment(url)
Normalize ==
    /\ pc = "norm"
    /\ resp' = strip_query_and_fragment(row)
    /\ pc' = "normalized"
    /\ UNCHANGED <<exit_code, db, conn, clock, args, site_idx, processed, row, blocked, reset, faults>>

\* the result is handed to strip_query_and_fragment again, as classify_url
\* does with an already normalised URL
Renormalize ==
    /\ pc = "normalized"
    /\ row' = resp
    /\ resp' = strip_query_and_fragment(resp)
    /\ pc' = "renormalized"
    /\ UNCHANGED <<exit_code, db, conn, clock, args, site_idx, processed, blocked, reset, faults>>

NextNorm == Normalize \/ Renormalize

SpecNorm == InitNorm /\ [][NextNorm]_vars

\* C18 (as stated): strip_query_and_fragment is idempotent: for every URL,
\* twinset.com URLs that end in more than one "/" included, normalising the
\* normalised URL returns it unchanged.
C18_Idempotent ==
    pc = "renormalized" => resp = row

-----------------------------------------------------------------------------
(* IndexDb.match_articles on its own: every list of up to MaxArticles      *)
(* articles against every index over three rows.  row holds the articles,  *)
(* conn the store, resp what match_articles writes.                        *)

\* An article as typed: its code (the text in capitals, without the
\* surrounding and repeated white space), the letter case it is written in,
\* and whether white space surrounds it.  A blank article has code "".
ArticleCodes == {"SKU1", "241TP2140", ""}
ArticleTexts == [code : ArticleCodes, casing : Casings, padded : BOOLEAN]

\* normalize_space(a).upper(): the text of the result, which is a code
CleanArticle(a) == a.code

\* dedupe_keep_order: first occurrences, in order, without the empty string
RECURSIVE dedupe_keep_order(_)
dedupe_keep_order(values) ==
    IF values = <<>> THEN <<>>
    ELSE LET rest == dedupe_keep_order(SubSeq(values, 1, Len(values) - 1))
             v == values[Len(values)]
         IN  IF v = "" \/ (\E i \in 1..Len(rest) : rest[i] = v) THEN rest ELSE Append(rest, v)

\* cleaned = [normalize_space(a).upper() for a in articles if normalize_space(a)]
RECURSIVE CleanAll(_)
CleanAll(articles) ==
    IF articles = <<>> THEN <<>>
    ELSE IF CleanArticle(Head(articles)) # ""
         THEN <<CleanArticle(Head(articles))>> \o CleanAll(Tail(articles))
         ELSE CleanAll(Tail(articles))

\* SELECT site, sku, url, ... FROM sku_index WHERE sku = ?
SelectSku(index, article) == { k \in DOMAIN index : k[2] = Some(article) }

\* A report is the multiset of its rows (row -> number of occurrences); the
\* order of the rows of a CSV file is not modelled.
NoRows == [x \in {} |-> 0]
AppendRows(report, new) ==
    [x \in DOMAIN report \cup new |->
        (IF x \in DOMAIN report THEN report[x] ELSE 0) + (IF x \in new THEN 1 ELSE 0)]
RowCount(report) ==
    LET RECURSIVE Sum(_)
        Sum(S) == IF S = {} THEN 0
                  ELSE LET x == CHOOSE y \in S : TRUE IN report[x] + Sum(S \ {x})
    IN  Sum(DOMAIN report)

\* Mutant: found_articles counts the rows of the found report
match_summary_rows(cleaned, found_rows, missing_rows) ==
    [total_articles |-> Len(cleaned),
     found_articles |-> RowCount(found_rows),
     missing_articles |-> RowCount(missing_rows)]

match_summary(cleaned, found_rows, missing_rows) ==
    [total_articles |-> Len(cleaned),
     found_articles |-> Len(cleaned) - RowCount(missing_rows),
     missing_articles |-> RowCount(missing_rows)]

\* match_articles: the for loop over cleaned
RECURSIVE MatchLoop(_, _, _, _)
MatchLoop(index, cleaned, found_rows, missing_rows) ==
    IF cleaned = <<>> THEN [found_rows |-> found_rows, missing_rows |-> missing_rows]
    ELSE LET article == Head(cleaned)
             rows == SelectSku(index, article)
         IN  IF rows = {}
             THEN MatchLoop(index, Tail(cleaned), found_rows,
                            AppendRows(missing_rows, {[article |-> article]}))
             ELSE MatchLoop(index, Tail(cleaned),
                            AppendRows(found_rows,
                                       { [article |-> article, site |-> k[1], url |-> k[3]] : k \in rows }),
                            missing_rows)

match_articles(store, articles) ==
    LET cleaned == dedupe_keep_order(CleanAll(articles))
        out == MatchLoop(store.sku_index, cleaned, NoRows, NoRows)
    IN  [cleaned |-> cleaned, found_rows |-> out.found_rows, missing_rows |-> out.missing_rows,
         summary |-> match_summary(cleaned, out.found_rows, out.missing_rows)]

RECURSIVE ArticleLists(_)
ArticleLists(n) ==
    IF n = 0 THEN {<<>>}
    ELSE ArticleLists(n - 1) \cup
         { Append(l, a) : l \in { q \in ArticleLists(n - 1) : Len(q) = n - 1 }, a \in ArticleTexts }

\* The stores the crawler can leave: SKU1 found on two pages of twinset.ru,
\* 241TP2140 on one page of twinset.com
IndexRows == {<<RU, Some("SKU1"), RuP1>>, <<RU, Some("SKU1"), RuP2>>, <<COM, Some("241TP2140"), ComP>>}
MatchStores ==
    { [EmptyStore EXCEPT !.sku_index = [k \in rows |-> [title |-> Some("Dress"), updated_at |-> 0]]] :
        rows \in SUBSET IndexRows }

InitMatch ==
    /\ db \in MatchStores
    /\ conn = db
    /\ clock = 0
    /\ pc = "match"
    /\ args = NoArgs
    /\ site_idx = 1
    /\ processed = 0
    /\ row \in ArticleLists(MaxArticles)
    /\ resp = NoResp
    /\ blocked = FALSE
    /\ reset = 0
    /\ faults = 0
    /\ exit_code = NULL

\* run_match: outputs = db.match_articles(articles, export_dir)
MatchArticles ==
    /\ pc = "match"
    /\ resp' = match_articles(conn, row)
    /\ pc' = "matched"
    /\ UNCHANGED <<exit_code, db, conn, clock, args, site_idx, processed, row, blocked, reset, faults>>

NextMatch == MatchArticles

SpecMatch == InitMatch /\ [][NextMatch]_vars

\* the articles of the input, cleaned: what the reports are about
InputArticles == { CleanArticle(row[i]) : i \in 1..Len(row) } \ {""}

\* C21: match_articles partitions the cleaned, de-duplicated articles: each
\* is either in the found report, with exactly one row per sku_index row (of
\* any site) whose sku equals it, or once in the missing report, never in
\* both and never in neither, and found_articles + missing_articles =
\* total_articles = the number of distinct articles.
C21_MatchPartition ==
    pc = "matched" =>
        LET found == resp.found_rows
            missing == resp.missing_rows
        IN  /\ \A x \in DOMAIN found : x.article \in InputArticles /\ found[x] = 1
            /\ \A x \in DOMAIN missing : x.article \in InputArticles /\ missing[x] = 1
            /\ \A a \in InputArticles :
                  /\ { <<x.site, x.url>> : x \in { y \in DOMAIN found : y.article = a } }
                        = { <<k[1], k[3]>> : k \in { j \in DOMAIN conn.sku_index : j[2] = Some(a) } }
                  /\ ([article |-> a] \in DOMAIN missing)
                        <=> ~(\E y \in DOMAIN found : y.article = a)
                  /\ ([article |-> a] \in DOMAIN missing)
                        <=> ~(\E j \in DOMAIN conn.sku_index : j[2] = Some(a))
            /\ resp.summary.total_articles = Cardinality(InputArticles)
            /\ resp.summary.found_articles
                  = Cardinality({ a \in InputArticles : \E y \in DOMAIN found : y.article = a })
            /\ resp.summary.missing_articles = Cardinality(DOMAIN missing)
            /\ resp.summary.found_articles + resp.summary.missing_articles
                  = resp.summary.total_articles

\* C21 witness: "sku1" typed in lower case twice (once padded) and an
\* unknown article, matched against an index that holds SKU1 under two
\* URLs: two found rows, one missing row.
C21_Witness ==
    /\ pc = "matched"
    /\ Len(row) = 3
    /\ row[1] = [code |-> "SKU1", casing |-> "lower", padded |-> FALSE]
    /\ row[2] = [code |-> "SKU1", casing |-> "lower", padded |-> TRUE]
    /\ row[3].code = "241TP2140"
    /\ DOMAIN conn.sku_index = {<<RU, Some("SKU1"), RuP1>>, <<RU, Some("SKU1"), RuP2>>}
    /\ Cardinality(DOMAIN resp.found_rows) = 2
    /\ DOMAIN resp.missing_rows = {[article |-> "241TP2140"]}

====
